---- MODULE Spec2Model ----
(***************************************************************************)
(* Cache-freshness and near-real-time counting subsystem of the library    *)
(* dashboard backend: the adaptive poll loop (cron/syncVisitors.ts), the   *)
(* batch aggregators (cron/syncVisitors.ts, cron/syncBooks.ts), the Read   *)
(* Gateway handlers (routes/visitor.ts, routes/book.ts), the SSE stream    *)
(* and the delta-mode live counter (services/visitorService.ts).           *)
(*                                                                         *)
(* The module holds several specifications over one set of variables; a    *)
(* specification leaves the variables of the other components at their     *)
(* initial values.  All times are in milliseconds unless said otherwise.   *)
(***************************************************************************)
EXTENDS Integers, Sequences, FiniteSets, TLC

VARIABLES
    cfg,              \* the fast loop's configuration (environment, read once)
    fastLoopStarted,  \* syncVisitors.ts:8
    fastJobRunning,   \* syncVisitors.ts:7
    registerCalls,    \* number of registerVisitorSyncJob() calls made so far
    fl,               \* per runFastLoop() invocation: the closure of `loop`
    liveKey,          \* cache entry of CACHE_KEYS.TODAY_COUNT in the loop's view
    pace,             \* inputs and result of one effectiveMin computation
    rows,             \* visitor_count: rows[i] is the local day of row visitor_id = i
    localDay,         \* the date of CURDATE() / getTodayRange() (server-local)
    utcDay,           \* the date of new Date().toISOString() (UTC)
    tz,               \* server time zone against UTC: "same", "ahead" or "behind"
    dstate,           \* the three visitors:today:delta:* keys of the cache store
    ev,               \* per caller: its getTodayCount() evaluation (delta mode)
    inits,            \* per stamp date: baselines persisted since the last key loss
    phase,            \* index.ts start(): "down", "boot" (prewarm) or "serving"
    store,            \* the aggregate keys of the cache store: writer run and expiry
    batch,            \* per run slot: one prewarm or cron run of a batch aggregator
    gen,              \* number of batch runs started so far
    clock,            \* time, in units of the aggregate keys' TTL
    resp,             \* the last response of a Read Gateway handler
    conn,             \* per SSE connection: socket, handler position, last write
    listeners,        \* connections whose listener is on visitorEvents 'today'
    heartbeats,       \* connections whose heartbeat interval is active
    closeHooks,       \* connections whose cleanup is on req.raw 'close' / 'end'
    published,        \* emitTodayVisitor calls made so far
    mode,             \* TODAY_MODE
    istate,           \* the incremental-mode keys of the cache store
    call,             \* a getTodayCount() evaluation in direct or incremental mode
    sinceChange,      \* time since the dataset or the date last changed
    quiet,            \* calls that succeeded since the dataset or the date changed
    corrupt,          \* keys whose stored string no longer decodes
    hour,             \* server time of day, in hours
    age,              \* per domain: hours since its keys were last written
    ran,              \* per domain: whether the day's scheduled run is still due
    found,            \* what the last read of an aggregate key found
    trip,             \* one envelope written with setJSON and read with getJSON
    keyspace,         \* per key name of the cache store: the components that wrote it
    emitted,          \* the total of the poll loop's last emitTodayVisitor call
    race,             \* evaluations of the live value in flight and their starting order
    useSequelize,     \* USE_SEQUELIZE (visitorService.ts:53)
    dummyGen,         \* the dummy visitor generator (visitorService.ts:540-541)
    rank              \* month / year rankings: calendar, stored payloads, last answer

loopVars == <<cfg, fastLoopStarted, fastJobRunning, registerCalls, fl, liveKey>>
deltaVars == <<rows, localDay, utcDay, tz, dstate, ev, inits>>
gateVars == <<phase, store, batch, gen, clock, resp>>
sseVars == <<conn, listeners, heartbeats, closeHooks, published>>
counterVars == <<mode, istate, call, sinceChange, quiet>>
dailyVars == <<hour, age, ran, found>>
lateVars == <<keyspace, emitted, race, useSequelize, dummyGen, rank>>
miscVars == <<corrupt, dailyVars, trip, lateVars>>
moreVars == <<counterVars, miscVars>>
vars == <<cfg, fastLoopStarted, fastJobRunning, registerCalls, fl, liveKey, pace,
          rows, localDay, utcDay, tz, dstate, ev, inits,
          phase, store, batch, gen, clock, resp,
          conn, listeners, heartbeats, closeHooks, published,
          mode, istate, call, sinceChange, quiet, corrupt,
          hour, age, ran, found, trip, keyspace, emitted, race,
          useSequelize, dummyGen, rank>>

----------------------------------------------------------------------------
(* Bounds of the model *)

MaxRegister == 2      \* registerVisitorSyncJob() calls explored
MaxDur == 1           \* longest getTodayCount() / redis.set() await
MaxLate == 1          \* how late a timer may fire
MaxToday == 1         \* largest value getTodayCount() returns
MaxRuns == 7          \* `runs` saturates here (only runs > 5 is ever read)
AvgScale == 10        \* avgRun is held in 1/AvgScale ms (fixed point)
MaxAvgMs == 40        \* largest average duration tried on effectiveMin
MaxRows == 3          \* rows inserted into visitor_count
MaxDay == 1            \* midnights explored (days are 0..MaxDay)
MaxBatchRuns == 3      \* batch runs started: two prewarms, then cron runs
MaxClock == 1          \* TTL periods that pass
MaxConns == 2          \* SSE connections opened

\* stored strings that are damaged at the same time
MaxCorrupt == 1

\* longest time followed between a run's queries answering and one of its writes
MaxLag == 2

\* emitTodayVisitor calls explored
MaxPublish == 3
MaxItems == 2          \* rows in the data of an envelope

Max(a, b) == IF a >= b THEN a ELSE b
Min(a, b) == IF a <= b THEN a ELSE b

\* Math.round(num / den) for num >= 0, den > 0
RoundDiv(num, den) == (2 * num + den) \div (2 * den)

Chains == 1..MaxRegister
Durations == {0, MaxDur}      \* how long an await of the loop body takes
Lateness == {0, MaxLate}      \* how long after its due time a timer fires
TodayVals == 0..MaxToday      \* what getTodayCount() returns
\* "long ago": elapsed times saturate here, above every configured interval
\* of Configs and every duration of a cycle
TCap == 6 + 2 * MaxDur
Sat(t) == Min(t, TCap)

----------------------------------------------------------------------------
(* Configuration surface of the fast loop *)

MIN_SAMPLES == 5
EMA_KEEP == 85
EMA_NEW == 15
MS_PER_SECOND == 1000
TTL_FLOOR_SECONDS == 2

Configs ==
    [ minIntervalMs     : {2, 4},
      bufferMs          : {1},
      ADAPTIVE_ENABLED  : BOOLEAN,
      HARD_FLOOR_MS     : {1, 3},
      TARGET_MULTIPLIER : {1, 3},
      SOFT_FLOOR_MS     : {2} ]

\* runs > 5 with adaptive pacing switched on (syncVisitors.ts:34 and :58)
AdaptiveApplies(runs) == cfg.ADAPTIVE_ENABLED /\ runs > MIN_SAMPLES

\* Math.round((avgRun || 1) * TARGET_MULTIPLIER), avgRun in 1/AvgScale ms
Dynamic(avgRun) ==
    RoundDiv((IF avgRun = 0 THEN AvgScale ELSE avgRun) * cfg.TARGET_MULTIPLIER, AvgScale)

EffectiveMin_NoSoftFloor(avgRun, runs) ==
    IF AdaptiveApplies(runs)
    THEN Max(cfg.HARD_FLOOR_MS, Min(cfg.minIntervalMs, Dynamic(avgRun)))
    ELSE cfg.minIntervalMs

EffectiveMin_NoHardFloor(avgRun, runs) ==
    IF AdaptiveApplies(runs)
    THEN Min(cfg.minIntervalMs, Max(Dynamic(avgRun), cfg.SOFT_FLOOR_MS))
    ELSE cfg.minIntervalMs

\* syncVisitors.ts:33-41
EffectiveMin(avgRun, runs) ==
    IF AdaptiveApplies(runs)
    THEN Max(cfg.HARD_FLOOR_MS,
             Min(cfg.minIntervalMs, Max(Dynamic(avgRun), cfg.SOFT_FLOOR_MS)))
    ELSE cfg.minIntervalMs

LiveTtl_Configured(effectiveMin, runs) ==
    Max((cfg.minIntervalMs \div MS_PER_SECOND) * 2, TTL_FLOOR_SECONDS)

\* syncVisitors.ts:58-60
LiveTtl(effectiveMin, runs) ==
    LET ttlBase == IF AdaptiveApplies(runs) THEN effectiveMin ELSE cfg.minIntervalMs
    IN  Max((ttlBase \div MS_PER_SECOND) * 2, TTL_FLOOR_SECONDS)

\* syncVisitors.ts:67   avgRun = avgRun === 0 ? total : avgRun*0.85 + total*0.15
NextAvg(avgRun, total) ==
    IF avgRun = 0 THEN total * AvgScale
    ELSE RoundDiv(avgRun * EMA_KEEP + total * AvgScale * EMA_NEW, EMA_KEEP + EMA_NEW)

----------------------------------------------------------------------------
(* Live Counter, delta strategy: getTodayCount with TODAY_MODE = 'delta' *)

Nil == 0 - 1          \* an absent key, a null result

\* CACHE_KEYS.TODAY_COUNT absent from the store
NoKey == [present |-> FALSE, val |-> 0, ttl |-> 0]

Days == 0..MaxDay
Callers == {"loop", "gateway"}    \* the poll loop and the Read Gateway fallback
DeltaKeys == {"basecount", "basemaxid", "lastinit"}

SetMax(S) == CHOOSE x \in S : \A y \in S : y <= x

\* rows of the counting period: checkin_date in [CURDATE(), CURDATE() + 1 day)
TodayIds == {i \in 1..Len(rows) : rows[i] = localDay}

\* queryTodayBaseline (visitorService.ts:91-109): COUNT(*), MAX(visitor_id) || 0
QueryTodayBaseline ==
    [count |-> Cardinality(TodayIds),
     maxId |-> IF TodayIds = {} THEN 0 ELSE SetMax(TodayIds)]

\* queryTodayDeltaAfter (visitorService.ts:112-134): rows of today with a larger id
QueryTodayDeltaAfter(baseMaxId) ==
    LET S == {i \in TodayIds : i > baseMaxId}
    IN  [delta |-> Cardinality(S), newMax |-> IF S = {} THEN Nil ELSE SetMax(S)]

NeedInit_IgnoreStamp(baseCount, baseMaxId, lastInit, todayStr) ==
    lastInit = Nil \/ baseCount = Nil \/ baseMaxId = Nil

\* visitorService.ts:172  (the stamp is `${todayStr}:${Date.now()}`; only its
\* date prefix is ever compared)
NeedInit(baseCount, baseMaxId, lastInit, todayStr) ==
    lastInit = Nil \/ lastInit # todayStr \/ baseCount = Nil \/ baseMaxId = Nil

ShouldFold_Always(deltaCount, newMax, baseMaxId) == TRUE

\* visitorService.ts:191
ShouldFold(deltaCount, newMax, baseMaxId) ==
    deltaCount > 0 /\ newMax # Nil /\ newMax > baseMaxId

FoldCount_Replace(baseCount, deltaCount) == deltaCount

\* visitorService.ts:192
FoldCount(baseCount, deltaCount) == baseCount + deltaCount

\* `present` and `lastInit` keep what the call found in the store; baseCount and
\* baseMaxId are the call's local variables of the same names
IdleEval == [pc |-> "idle", needInit |-> FALSE, baseCount |-> Nil, baseMaxId |-> Nil,
             present |-> FALSE, lastInit |-> Nil, todayStr |-> Nil, delta |-> 0,
             newMax |-> Nil, ret |-> Nil, err |-> FALSE]

\* a call that threw
Thrown(e) == [e EXCEPT !.pc = "done", !.ret = Nil, !.err = TRUE]

Evaluating(c) == ev[c].pc \in {"query", "persist"}

\* getTodayCount up to its first query: the three GETs, todayStr, needInit
\* (visitorService.ts:163-174)
BeginEval(c, ok) ==
    /\ ev[c].pc \in {"idle", "done"}
    /\ ev' = [ev EXCEPT ![c] =
                IF ~ok THEN Thrown(IdleEval)
                ELSE [IdleEval EXCEPT
                        !.pc = "query",
                        !.baseCount = dstate["basecount"],
                        !.baseMaxId = dstate["basemaxid"],
                        !.lastInit = dstate["lastinit"],
                        !.present = (\A k \in DeltaKeys : dstate[k] # Nil),
                        !.todayStr = utcDay,
                        !.needInit = NeedInit(dstate["basecount"], dstate["basemaxid"],
                                              dstate["lastinit"], utcDay)]]
    /\ UNCHANGED <<rows, localDay, utcDay, tz, dstate, inits>>

\* the baseline or the delta query answers (visitorService.ts:177-179, 188-193)
QueryDone(c, ok) ==
    /\ ev[c].pc = "query"
    /\ ev' = [ev EXCEPT ![c] =
                IF ~ok THEN Thrown(ev[c])
                ELSE IF ev[c].needInit
                THEN [ev[c] EXCEPT !.pc = "persist",
                                   !.baseCount = QueryTodayBaseline.count,
                                   !.baseMaxId = QueryTodayBaseline.maxId]
                ELSE LET q == QueryTodayDeltaAfter(ev[c].baseMaxId)
                     IN  IF ShouldFold(q.delta, q.newMax, ev[c].baseMaxId)
                         THEN [ev[c] EXCEPT !.pc = "persist", !.delta = q.delta,
                                            !.baseCount = FoldCount(ev[c].baseCount, q.delta),
                                            !.baseMaxId = q.newMax]
                         ELSE [ev[c] EXCEPT !.pc = "done", !.ret = ev[c].baseCount]]
    /\ UNCHANGED <<rows, localDay, utcDay, tz, dstate, inits>>

\* redis.multi()...exec() settles (visitorService.ts:180-185, 194-199)
PersistDone(c, ok) ==
    /\ ev[c].pc = "persist"
    /\ IF ~ok
       THEN /\ ev' = [ev EXCEPT ![c] = Thrown(ev[c])]
            /\ UNCHANGED <<dstate, inits>>
       ELSE /\ ev' = [ev EXCEPT ![c] = [ev[c] EXCEPT !.pc = "done", !.ret = ev[c].baseCount]]
            /\ dstate' = [k \in DeltaKeys |->
                            CASE k = "basecount" -> ev[c].baseCount
                              [] k = "basemaxid" -> ev[c].baseMaxId
                              [] OTHER -> IF ev[c].needInit THEN ev[c].todayStr ELSE dstate[k]]
            /\ inits' = IF ev[c].needInit
                        THEN [inits EXCEPT ![ev[c].todayStr] = Min(@ + 1, 2)]
                        ELSE inits
    /\ UNCHANGED <<rows, localDay, utcDay, tz>>

\* the caller takes the value returned (or the error thrown)
Consume(c) ==
    /\ ev[c].pc = "done"
    /\ ev' = [ev EXCEPT ![c] = IdleEval]
    /\ UNCHANGED <<rows, localDay, utcDay, tz, dstate, inits>>

\* a visit is recorded; generateDummyVisitor back-dates up to 24 hours
\* (visitorService.ts:599-609)
InsertRow(day) ==
    /\ Len(rows) < MaxRows
    /\ day \in {localDay, localDay - 1} \cap Days
    /\ rows' = Append(rows, day)
    /\ UNCHANGED <<localDay, utcDay, tz, dstate, ev, inits>>

\* midnight passes: in local time, in UTC, or in both at once
Midnight ==
    /\ \/ tz = "same" /\ localDay < MaxDay
          /\ localDay' = localDay + 1 /\ utcDay' = utcDay + 1
       \/ tz = "ahead" /\ localDay = utcDay /\ localDay < MaxDay
          /\ localDay' = localDay + 1 /\ UNCHANGED utcDay
       \/ tz = "ahead" /\ localDay = utcDay + 1
          /\ utcDay' = utcDay + 1 /\ UNCHANGED localDay
       \/ tz = "behind" /\ utcDay = localDay /\ utcDay < MaxDay
          /\ utcDay' = utcDay + 1 /\ UNCHANGED localDay
       \/ tz = "behind" /\ utcDay = localDay + 1
          /\ localDay' = localDay + 1 /\ UNCHANGED utcDay
    /\ UNCHANGED <<rows, tz, dstate, ev, inits>>

\* a state key disappears (external flush or eviction: the keys carry no TTL)
LoseKey(k) ==
    /\ dstate[k] # Nil
    /\ dstate' = [dstate EXCEPT ![k] = Nil]
    /\ inits' = [d \in Days |-> 0]
    /\ UNCHANGED <<rows, localDay, utcDay, tz, ev>>

DeltaOff ==
    /\ rows = << >>
    /\ localDay = 0
    /\ utcDay = 0
    /\ tz = "same"
    /\ dstate = [k \in DeltaKeys |-> Nil]
    /\ ev = [c \in Callers |-> IdleEval]
    /\ inits = [d \in Days |-> 0]

----------------------------------------------------------------------------
(* Cache store and batch aggregators: prewarmVisitorCaches, prewarmBookCaches *)
(* and the cron callbacks of registerVisitorSyncJob and registerBookStatsJob  *)

loopOnly == <<cfg, fastLoopStarted, fastJobRunning, registerCalls, fl>>

Domains == {"visitor", "book"}

\* runs that can be in flight together: the two prewarms, or cron callbacks
RunSlots == {1, 2}

\* the keys of a run, in the order its awaited writes are issued
WriteOrder(d) ==
    IF d = "visitor"
    THEN <<"WEEK_DAILY", "MONTHLY_TOTALS", "YEARLY_TOTALS",
           "TOP_MONTH_VISITORS", "TOP_YEAR_VISITORS">>
    ELSE <<"BOOK_COLLECTION_STATS", "BOOK_TOP_BORROWED", "BOOK_TOP_BORROWED_MONTH",
           "BOOK_TOP_BORROWED_YEAR", "BOOK_TOP_BORROWERS_MONTH",
           "BOOK_TOP_BORROWERS_YEAR", "BOOK_SUMMARY">>

Range(s) == {s[i] : i \in 1..Len(s)}

BatchKeys(d) == Range(WriteOrder(d))

\* aggregate keys the handlers read and no run writes
UnwrittenKeys == {"TOP_MONTH_FACULTIES", "TOP_YEAR_FACULTIES", "SUMMARY"}

AggregateKeys == BatchKeys("visitor") \cup BatchKeys("book") \cup UnwrittenKeys

\* the top-level fields of a CacheEnvelope
EnvelopeFields == {"generated_at", "ttl_seconds", "data"}

\* the envelope fields of the JSON text a run stores under key k: metaWrap(rows)
\* for the visitor keys, JSON.stringify of the bare query result for the book
\* keys, and for the book summary an object with the two stamps and the
\* results spread under names of their own
PayloadFields(k) ==
    IF k \in BatchKeys("visitor") THEN {"generated_at", "ttl_seconds", "data"}
    ELSE IF k = "BOOK_SUMMARY" THEN {"generated_at", "ttl_seconds"}
    ELSE {}

\* the queries a run hands to Promise.all
Queries(d) == IF d = "visitor" THEN 1..5 ELSE 1..6

\* an entry names the run that wrote it (0: never written), when it expires,
\* and by how much its generated_at (if it has one) is later than the moment
\* the run's queries had all answered
NoEntry == [gen |-> 0, exp |-> 0, lag |-> 0]

\* 'EX', 90000: one TTL after the write
Expiry(now) == now + 1

Live(e) == e.gen # 0 /\ clock < e.exp

NoRun == [pc |-> "idle", domain |-> "visitor", kind |-> "none", id |-> 0, idx |-> 0,
          queryFailed |-> FALSE, writeFailed |-> FALSE, writes |-> 0, elapsed |-> 0]

NewRun(d, kind, id) == [NoRun EXCEPT !.pc = "query", !.domain = d, !.kind = kind, !.id = id]

BarrierPasses_IgnoreFailures(failedQ) == TRUE

\* await Promise.all([...]) resolves only if no query rejected
BarrierPasses(failedQ) == failedQ = {}

\* start(): both prewarms are called and awaited with Promise.allSettled
Start ==
    /\ phase = "down"
    /\ phase' = "boot"
    /\ batch' = [s \in RunSlots |-> IF s = 1 THEN NewRun("visitor", "prewarm", 1)
                                             ELSE NewRun("book", "prewarm", 2)]
    /\ gen' = 2
    /\ UNCHANGED <<store, clock, resp>>
    /\ UNCHANGED <<loopVars, pace, deltaVars, sseVars, moreVars>>

PrewarmSettled_NotAwaited == TRUE

\* await Promise.allSettled([prewarmVisitorCaches(), prewarmBookCaches()])
\* is over: each prewarm has ended, by its last write or in its catch block
PrewarmSettled == \A s \in RunSlots : batch[s].pc = "done"

\* node-cron calls the callback of domain d; it takes the lowest free slot
CronFires(s, d) ==
    /\ phase = "serving"
    /\ gen < MaxBatchRuns
    /\ batch[s].pc \in {"idle", "done"}
    /\ \A t \in RunSlots : t < s => batch[t].pc \notin {"idle", "done"}
    /\ gen' = gen + 1
    /\ batch' = [batch EXCEPT ![s] = NewRun(d, "cron", gen + 1)]
    /\ UNCHANGED <<phase, store, clock, resp>>
    /\ UNCHANGED <<loopVars, pace, deltaVars, sseVars, moreVars>>

\* the Promise.all of run s settles; failedQ are the queries that rejected
QueriesSettle(s, failedQ) ==
    /\ batch[s].pc = "query"
    /\ failedQ \subseteq Queries(batch[s].domain)
    /\ batch' = [batch EXCEPT ![s] =
                    IF BarrierPasses(failedQ)
                    THEN [@ EXCEPT !.pc = "write", !.idx = 1, !.queryFailed = (failedQ # {})]
                    ELSE [@ EXCEPT !.pc = "done", !.queryFailed = TRUE]]
    /\ UNCHANGED <<phase, store, gen, clock, resp>>
    /\ UNCHANGED <<loopVars, pace, deltaVars, sseVars, moreVars>>

\* the awaited setJSON / redis.set of the run's next key settles; a rejection
\* goes to the catch block and the remaining keys are not written
\* after d ms; the payload was built, and `new Date()` taken, when the call
\* was made: elapsed ms after the run's queries had answered
WriteSettles(s, ok, d) ==
    /\ batch[s].pc = "write"
    /\ LET r == batch[s]
           k == WriteOrder(r.domain)[r.idx]
           last == r.idx = Len(WriteOrder(r.domain))
           stamp == IF "generated_at" \in PayloadFields(k) THEN r.elapsed ELSE 0
           after == Min(r.elapsed + d, MaxLag)
       IN  /\ store' = IF ok THEN [store EXCEPT ![k] = [gen |-> r.id, exp |-> Expiry(clock),
                                                        lag |-> stamp]]
                             ELSE store
           /\ batch' = [batch EXCEPT ![s] =
                           IF ~ok THEN [r EXCEPT !.pc = "done", !.writeFailed = TRUE]
                           ELSE IF last THEN [r EXCEPT !.pc = "done", !.writes = @ + 1]
                           ELSE [r EXCEPT !.idx = @ + 1, !.writes = @ + 1,
                                          !.elapsed = after]]
    /\ UNCHANGED <<phase, gen, clock, resp>>
    /\ UNCHANGED <<loopVars, pace, deltaVars, sseVars, moreVars>>

\* time passes by one TTL (25 hours); no run is part-way through its writes,
\* which take milliseconds
Tick ==
    /\ clock < MaxClock
    /\ \A s \in RunSlots : batch[s].pc # "write"
    /\ clock' = clock + 1
    /\ UNCHANGED <<phase, store, batch, gen, resp>>
    /\ UNCHANGED <<loopVars, pace, deltaVars, sseVars, moreVars>>

\* the live key's TTL runs out
LiveKeyExpires ==
    /\ liveKey.present
    /\ liveKey' = NoKey
    /\ UNCHANGED <<loopOnly, pace, deltaVars, gateVars, sseVars, moreVars>>

----------------------------------------------------------------------------
(* Read Gateway: the handlers of routes/visitor.ts and routes/book.ts *)

RETRY_AFTER_SECONDS == 5
TODAY_TTL_SECONDS == 60
FALLBACK_TTL_SECONDS == 30

\* handlers that also want the cached rows to be of the current month / year
PeriodChecked == {"TOP_MONTH_VISITORS", "TOP_YEAR_VISITORS",
                  "TOP_MONTH_FACULTIES", "TOP_YEAR_FACULTIES"}

\* Number(cached) of a string that is no number
NaN == 0 - 2

\* ep: the key the endpoint serves; read / liveRead: how its reads went; parse:
\* whether the string found decoded ("ok"), did not ("fail"), or was turned
\* into NaN ("nan")
NoResp == [ep |-> "none", read |-> "none", liveRead |-> "none", status |-> 0,
           warming |-> FALSE, retry |-> 0, source |-> "none", total |-> Nil,
           aggQueries |-> 0, liveQuery |-> FALSE, wrote |-> {}, parse |-> "none"]

ReadOutcome_AlwaysMiss(present, ok) == IF ~ok THEN "fail" ELSE "miss"

\* await redis.get(key): rejects, or yields the stored string or null
ReadOutcome(present, ok) == IF ~ok THEN "fail" ELSE IF present THEN "hit" ELSE "miss"

\* a rejection no handler catches: Fastify's default error handler answers
Thrown500(r) == [r EXCEPT !.status = 500]

Warming(r) == [r EXCEPT !.status = 202, !.warming = TRUE, !.retry = RETRY_AFTER_SECONDS]

FromCache(r) == [r EXCEPT !.status = 200, !.source = "cache"]

FromDb(r, v) == [r EXCEPT !.status = 200, !.source = "db", !.total = v,
                          !.liveQuery = TRUE, !.wrote = {"TODAY_COUNT"}]

\* the answers r can become once Number(cached) of the live key is put in it:
\* of a string that is no number the result is NaN, which the reply serializer
\* either writes as null or rejects
LiveHit(r) ==
    IF "TODAY_COUNT" \in corrupt
    THEN {[r EXCEPT !.total = NaN, !.parse = "nan"],
          Thrown500([r EXCEPT !.total = NaN, !.parse = "nan"])}
    ELSE {[r EXCEPT !.total = liveKey.val, !.parse = "ok"]}

\* every aggregate handler but the visitor summary: one read, then the answer
HandleAggregate(k, readOk, current) ==
    /\ phase = "serving"
    /\ k \in AggregateKeys \ {"SUMMARY"}
    /\ LET read == ReadOutcome(Live(store[k]), readOk)
           r == [NoResp EXCEPT !.ep = k, !.read = read]
       IN  resp' = IF read = "fail" THEN Thrown500(r)
                   ELSE IF read = "hit" /\ k \in corrupt
                        THEN Warming([r EXCEPT !.parse = "fail"])
                   ELSE IF read = "hit" /\ (k \notin PeriodChecked \/ current)
                        THEN FromCache([r EXCEPT !.parse = "ok"])
                        ELSE Warming([r EXCEPT !.parse = IF read = "hit" THEN "ok" ELSE "none"])
    /\ UNCHANGED <<phase, store, batch, gen, clock>>
    /\ UNCHANGED <<loopVars, pace, deltaVars, sseVars, moreVars>>

\* GET /api/visitors/today
HandleToday(readOk, evalOk, v, setOk) ==
    /\ phase = "serving"
    /\ LET read == ReadOutcome(liveKey.present, readOk)
           r == [NoResp EXCEPT !.ep = "TODAY_COUNT", !.read = read, !.liveRead = read]
       IN  CASE read = "fail" -> resp' = Thrown500(r) /\ UNCHANGED liveKey
             [] read = "hit"  -> /\ resp' \in LiveHit(FromCache(r))
                                 /\ UNCHANGED liveKey
             [] read = "miss" ->
                    IF evalOk /\ setOk
                    THEN /\ resp' = FromDb(r, v)
                         /\ liveKey' = [present |-> TRUE, val |-> v, ttl |-> TODAY_TTL_SECONDS]
                    ELSE /\ resp' = Thrown500([r EXCEPT !.liveQuery = TRUE])
                         /\ UNCHANGED liveKey
    /\ UNCHANGED <<phase, store, batch, gen, clock>>
    /\ UNCHANGED <<loopOnly, pace, deltaVars, sseVars, moreVars>>

\* GET /api/visitors/summary
HandleVisitorSummary(readOk, liveReadOk, evalOk, v, setOk) ==
    /\ phase = "serving"
    /\ LET read == ReadOutcome(Live(store["SUMMARY"]), readOk)
           undecodable == read = "hit" /\ "SUMMARY" \in corrupt
           r == [NoResp EXCEPT !.ep = "SUMMARY", !.read = read,
                               !.parse = IF undecodable THEN "fail" ELSE "none"]
           liveRead == ReadOutcome(liveKey.present, liveReadOk)
           r2 == [r EXCEPT !.liveRead = liveRead]
       IN  IF read = "fail" THEN resp' = Thrown500(r) /\ UNCHANGED liveKey
           ELSE IF read = "hit" /\ ~undecodable
                THEN resp' = FromCache([r EXCEPT !.parse = "ok"]) /\ UNCHANGED liveKey
           ELSE CASE liveRead = "fail" -> resp' = Thrown500(r2) /\ UNCHANGED liveKey
                  [] liveRead = "hit"  -> /\ resp' \in LiveHit(Warming(r2))
                                          /\ UNCHANGED liveKey
                  [] liveRead = "miss" ->
                         IF evalOk /\ setOk
                         THEN /\ resp' = [Warming(r2) EXCEPT !.total = v, !.liveQuery = TRUE,
                                                             !.wrote = {"TODAY_COUNT"}]
                              /\ liveKey' = [present |-> TRUE, val |-> v,
                                             ttl |-> FALLBACK_TTL_SECONDS]
                         ELSE /\ resp' = Thrown500([r2 EXCEPT !.liveQuery = TRUE])
                              /\ UNCHANGED liveKey
    /\ UNCHANGED <<phase, store, batch, gen, clock>>
    /\ UNCHANGED <<loopOnly, pace, deltaVars, sseVars, moreVars>>

\* a stored string is damaged between batch runs (a foreign writer, a manual
\* SET) so that it no longer decodes
PayloadDamaged(k) ==
    /\ phase = "serving"
    /\ \A sl \in RunSlots : batch[sl].pc \in {"idle", "done"}
    /\ Cardinality(corrupt) < MaxCorrupt
    /\ k \notin corrupt
    /\ IF k = "TODAY_COUNT" THEN liveKey.present ELSE k \in AggregateKeys /\ Live(store[k])
    /\ corrupt' = corrupt \cup {k}
    /\ UNCHANGED <<loopVars, pace, deltaVars, gateVars, sseVars, counterVars, dailyVars, trip, lateVars>>

GateOff ==
    /\ phase = "down"
    /\ store = [k \in AggregateKeys |-> NoEntry]
    /\ batch = [s \in RunSlots |-> NoRun]
    /\ gen = 0
    /\ clock = 0
    /\ resp = NoResp

----------------------------------------------------------------------------
(* Event stream: GET /api/visitors/today/stream and events/visitorEvents.ts *)

ConnIds == 1..MaxConns

\* first, last: the first and the last thing written to the connection and
\* not dropped; since: the
\* publishes made before its listener was registered; updates: the publishes
\* written to it as 'update' events, in the order of the writes; backlog:
\* whether some of them are still buffered, the client not having taken them
NoConn == [socket |-> "none", pc |-> "none", first |-> "none", last |-> "none",
           since |-> 0, updates |-> << >>, backlog |-> FALSE]

\* a write to a response whose socket is gone is dropped
Written(c, what) == IF conn[c].socket = "open" THEN what ELSE conn[c].last

\* a client connects; the handler sets the headers and awaits the initial value
Connect(c) ==
    /\ conn[c].socket = "none"
    /\ \A b \in ConnIds : b < c => conn[b].socket # "none"
    /\ conn' = [conn EXCEPT ![c] = [NoConn EXCEPT !.socket = "open", !.pc = "load"]]
    /\ UNCHANGED <<listeners, heartbeats, closeHooks, published>>
    /\ UNCHANGED <<loopVars, pace, deltaVars, gateVars, moreVars>>

\* the awaits of the initial load settle ('init', or 'error' from the catch);
\* then listener, heartbeat and cleanup hooks are set up and the handler returns
InitialLoadDone(c, readOk, evalOk, v, setOk) ==
    /\ conn[c].pc = "load"
    /\ LET read == ReadOutcome(liveKey.present, readOk)
           stored == read = "miss" /\ evalOk /\ setOk
           sent == IF read = "hit" \/ stored THEN "init" ELSE "error"
       IN  /\ liveKey' = IF stored
                         THEN [present |-> TRUE, val |-> v, ttl |-> FALLBACK_TTL_SECONDS]
                         ELSE liveKey
           /\ conn' = [conn EXCEPT ![c].pc = "stream", ![c].last = Written(c, sent),
                                    ![c].first = Written(c, sent),
                                    ![c].since = published]
    /\ UNCHANGED published
    /\ listeners' = listeners \cup {c}
    /\ heartbeats' = heartbeats \cup {c}
    /\ closeHooks' = closeHooks \cup {c}
    /\ UNCHANGED <<loopOnly, pace, deltaVars, gateVars, moreVars>>

\* the connection closes: req.raw emits 'close' to the hooks set so far
ConnectionCloses(c) ==
    /\ conn[c].socket = "open"
    /\ conn' = [conn EXCEPT ![c].socket = "closed"]
    /\ IF c \in closeHooks
       THEN /\ heartbeats' = heartbeats \ {c}
            /\ listeners' = listeners \ {c}
       ELSE UNCHANGED <<heartbeats, listeners>>
    /\ UNCHANGED <<closeHooks, published>>
    /\ UNCHANGED <<loopVars, pace, deltaVars, gateVars, moreVars>>

Receivers_UntilClosed(ls) ==
    {c \in ls : \A b \in ls : b < c => conn[b].socket = "open"}

\* visitorEvents.emit('today', payload) calls every listener registered at the
\* time, one after the other; a listener writing to a closed connection
\* returns normally
Receivers(ls) == ls

\* emitTodayVisitor: every registered listener sends 'update'
Emit ==
    /\ published < MaxPublish
    /\ published' = published + 1
    /\ conn' = [c \in ConnIds |->
                 IF c \in Receivers(listeners)
                 THEN [conn[c] EXCEPT
                         !.last = Written(c, "update"),
                         !.updates = IF conn[c].socket = "open"
                                     THEN Append(@, published + 1) ELSE @,
                         !.backlog = (@ \/ conn[c].socket = "open")]
                 ELSE conn[c]]
    /\ UNCHANGED <<listeners, heartbeats, closeHooks>>

\* emitTodayVisitor called with nothing else going on
EmitTodayVisitor ==
    /\ Emit
    /\ UNCHANGED <<loopVars, pace, deltaVars, gateVars, moreVars>>

\* the 15 s interval of connection c fires
HeartbeatFires(c) ==
    /\ c \in heartbeats
    /\ conn' = [conn EXCEPT ![c].last = Written(c, "keepalive")]
    /\ UNCHANGED <<listeners, heartbeats, closeHooks, published>>
    /\ UNCHANGED <<loopVars, pace, deltaVars, gateVars, moreVars>>

\* the client of connection c takes the buffered 'update' events off it; a
\* slow client leaves them buffered
ClientReads(c) ==
    /\ conn[c].socket = "open"
    /\ conn[c].backlog
    /\ conn' = [conn EXCEPT ![c].backlog = FALSE]
    /\ UNCHANGED <<listeners, heartbeats, closeHooks, published>>
    /\ UNCHANGED <<loopVars, pace, deltaVars, gateVars, moreVars>>

SseOff ==
    /\ published = 0
    /\ conn = [c \in ConnIds |-> NoConn]
    /\ listeners = {}
    /\ heartbeats = {}
    /\ closeHooks = {}

----------------------------------------------------------------------------
(* Envelope encoding: setJSON and getJSON of cache/redisClient.ts *)

\* A JavaScript value of an envelope is [t, v]: a string (v numbers the
\* strings), a number, null, or a Date (v is its day). A JSON text is the same
\* tree with tokens [j, lit] for a string literal, a number literal or null.

\* ttl_seconds: 90000 of metaWrap and of the book summary
ENVELOPE_TTL_SECONDS == 90000

\* the envelopes metaWrap builds around the weekly series (syncVisitors.ts:97,
\* visitorService.ts:215-240): generated_at is an ISO string, ttl_seconds a
\* number, data the rows { date: r.date, total: Number(r.total) }, where
\* r.date is what the driver hands back for DATE(checkin_date): a Date (the
\* pool sets no dateStrings) or a string (the ORM's typecast)
Envelopes ==
    LET Str(n) == [t |-> "string", v |-> n]
        Num(n) == [t |-> "number", v |-> n]
        Rows == [date : {Str(0)} \cup {[t |-> "Date", v |-> d] : d \in Days},
                 total : {Num(0), Num(1)}]
    IN  [generated_at : {Str(100 + d) : d \in Days},
         ttl_seconds : {Num(ENVELOPE_TTL_SECONDS)},
         data : UNION {[1..n -> Rows] : n \in 0..MaxItems}]

\* JSON.stringify(value) (redisClient.ts:47): a Date is written as the string
\* its toJSON() returns (the ISO string of day d is string 100 + d)
Stringify(e) ==
    LET Tok(x) == CASE x.t = "string" -> [j |-> "str", lit |-> x.v]
                    [] x.t = "number" -> [j |-> "num", lit |-> x.v]
                    [] x.t = "Date" -> [j |-> "str", lit |-> 100 + x.v]
                    [] OTHER -> [j |-> "null", lit |-> 0]
    IN  [generated_at |-> Tok(e.generated_at),
         ttl_seconds |-> Tok(e.ttl_seconds),
         data |-> [i \in 1..Len(e.data) |->
                     [date |-> Tok(e.data[i].date), total |-> Tok(e.data[i].total)]]]

\* JSON.parse(raw) (redisClient.ts:59): a string literal is read as a string
Parse(raw) ==
    LET Val(k) == CASE k.j = "str" -> [t |-> "string", v |-> k.lit]
                    [] k.j = "num" -> [t |-> "number", v |-> k.lit]
                    [] OTHER -> [t |-> "null", v |-> 0]
    IN  [generated_at |-> Val(raw.generated_at),
         ttl_seconds |-> Val(raw.ttl_seconds),
         data |-> [i \in 1..Len(raw.data) |->
                     [date |-> Val(raw.data[i].date), total |-> Val(raw.data[i].total)]]]

\* written: the value last passed to setJSON; raw: the string under the key
\* while present; back: what getJSON returned (pc "hit"), null on a miss
NoTrip ==
    LET none == [generated_at |-> [t |-> "null", v |-> 0],
                 ttl_seconds |-> [t |-> "null", v |-> 0], data |-> << >>]
    IN  [pc |-> "none", written |-> none, present |-> FALSE,
         raw |-> Stringify(none), back |-> none]

\* setJSON(key, value, ttlSeconds) (redisClient.ts:46-53)
SetJSON(value, ok) ==
    /\ trip' = IF ok THEN [NoTrip EXCEPT !.pc = "written", !.written = value,
                                         !.present = TRUE, !.raw = Stringify(value)]
                     ELSE [NoTrip EXCEPT !.pc = "thrown"]
    /\ UNCHANGED <<loopVars, pace, deltaVars, gateVars, sseVars, counterVars, corrupt, dailyVars,
                   lateVars>>

\* the key's TTL runs out
KeyExpires ==
    /\ trip.present
    /\ trip' = [trip EXCEPT !.present = FALSE, !.raw = NoTrip.raw]
    /\ UNCHANGED <<loopVars, pace, deltaVars, gateVars, sseVars, counterVars, corrupt, dailyVars,
                   lateVars>>

\* getJSON(key) (redisClient.ts:55-64), the first read after the write
GetJSON(ok) ==
    /\ trip.pc = "written"
    /\ trip' = IF ~ok THEN [trip EXCEPT !.pc = "thrown"]
               ELSE IF ~trip.present THEN [trip EXCEPT !.pc = "miss"]
               ELSE [trip EXCEPT !.pc = "hit", !.back = Parse(trip.raw)]
    /\ UNCHANGED <<loopVars, pace, deltaVars, gateVars, sseVars, counterVars, corrupt, dailyVars,
                   lateVars>>

----------------------------------------------------------------------------
(* Key names of the cache store and who writes which *)

CACHE_KEYS_OneName == [n \in AggregateKeys \cup {"TODAY_COUNT"} |-> "visitors"]

\* redisClient.ts:27-44
CACHE_KEYS ==
    [TODAY_COUNT              |-> "visitors:today:count",
     WEEK_DAILY               |-> "visitors:week:daily",
     MONTHLY_TOTALS           |-> "visitors:month:totals",
     YEARLY_TOTALS            |-> "visitors:year:totals",
     TOP_MONTH_VISITORS       |-> "visitors:month:top",
     TOP_YEAR_VISITORS        |-> "visitors:year:top",
     TOP_MONTH_FACULTIES      |-> "visitors:month:faculties:top",
     TOP_YEAR_FACULTIES       |-> "visitors:year:faculties:top",
     SUMMARY                  |-> "visitors:summary",
     BOOK_COLLECTION_STATS    |-> "books:stats:collection",
     BOOK_TOP_BORROWED        |-> "books:top:borrowed",
     BOOK_TOP_BORROWED_MONTH  |-> "books:top:borrowed:month",
     BOOK_TOP_BORROWED_YEAR   |-> "books:top:borrowed:year",
     BOOK_TOP_BORROWERS_MONTH |-> "books:top:borrowers:month",
     BOOK_TOP_BORROWERS_YEAR  |-> "books:top:borrowers:year",
     BOOK_SUMMARY             |-> "books:summary"]

\* the keys set by the MULTI of a getTodayCount() call (visitorService.ts:46-51):
\* "init" is the reconciliation of incremental mode (147-151) and the baseline
\* of delta mode (180-184), "fold" the delta fold (194-197); a call that takes
\* neither branch, and every call of direct mode, writes nothing
TodayStateKeys(m, branch) ==
    CASE m = "incremental" /\ branch = "init" ->
            {"visitors:today:base", "visitors:today:incremental", "visitors:today:lastrecon"}
      [] m = "delta" /\ branch = "init" ->
            {"visitors:today:delta:basecount", "visitors:today:delta:basemaxid",
             "visitors:today:delta:lastinit"}
      [] m = "delta" /\ branch = "fold" ->
            {"visitors:today:delta:basecount", "visitors:today:delta:basemaxid"}
      [] OTHER -> {}

Branches == {"init", "fold", "none"}

\* every key name a poll cycle sets: its own redis.set and those of getTodayCount
PollKeys ==
    {CACHE_KEYS.TODAY_COUNT}
        \cup UNION {TodayStateKeys(m, b) : m \in {"direct", "incremental", "delta"}, b \in Branches}

\* every key name a run of a batch aggregator sets
BatchKeyNames == {CACHE_KEYS[n] : n \in BatchKeys("visitor") \cup BatchKeys("book")}

KeyNames == {CACHE_KEYS[n] : n \in DOMAIN CACHE_KEYS} \cup PollKeys

\* nothing written yet, no cycle and no run in flight
NoKeyspace ==
    [writers |-> [k \in KeyNames |-> {}], mode |-> "direct", poll |-> "idle",
     domain |-> "none", idx |-> 0]

Written_By(ws, who, K) == [k \in DOMAIN ws |-> IF k \in K THEN ws[k] \cup {who} ELSE ws[k]]

\* one step of a cycle of `loop` (syncVisitors.ts:47-78): the cycle is admitted;
\* await getTodayCount() settles, having set the state keys of its branch or
\* thrown; await redis.set(CACHE_KEYS.TODAY_COUNT, ...) settles
PollCycleStep(branch, ok) ==
    /\ keyspace' =
          CASE keyspace.poll = "idle" -> [keyspace EXCEPT !.poll = "eval"]
            [] keyspace.poll = "eval" ->
                 IF ok
                 THEN [keyspace EXCEPT
                         !.poll = "write",
                         !.writers = Written_By(@, "poll", TodayStateKeys(keyspace.mode, branch))]
                 ELSE [keyspace EXCEPT !.poll = "idle"]
            [] OTHER ->
                 [keyspace EXCEPT
                    !.poll = "idle",
                    !.writers = IF ok THEN Written_By(@, "poll", {CACHE_KEYS.TODAY_COUNT}) ELSE @]
    /\ UNCHANGED <<loopVars, pace, deltaVars, gateVars, sseVars, counterVars, corrupt, dailyVars, trip>>
    /\ UNCHANGED <<emitted, race, useSequelize, dummyGen, rank>>

\* one step of a prewarm or cron run of domain d (syncVisitors.ts:86-108 and
\* 112-132, syncBooks.ts:8-43 and 49-87): its queries settle, or its next
\* awaited write settles; a failed write ends the run
BatchRunStep(d, ok) ==
    /\ keyspace' =
          IF keyspace.domain = "none"
          THEN IF ok THEN [keyspace EXCEPT !.domain = d, !.idx = 1] ELSE keyspace
          ELSE LET order == WriteOrder(keyspace.domain)
                   wrote == IF ok THEN Written_By(keyspace.writers, "batch",
                                                  {CACHE_KEYS[order[keyspace.idx]]})
                            ELSE keyspace.writers
               IN  IF ok /\ keyspace.idx < Len(order)
                   THEN [keyspace EXCEPT !.writers = wrote, !.idx = @ + 1]
                   ELSE [keyspace EXCEPT !.writers = wrote, !.domain = "none", !.idx = 0]
    /\ keyspace' # keyspace
    /\ UNCHANGED <<loopVars, pace, deltaVars, gateVars, sseVars, counterVars, corrupt, dailyVars, trip>>
    /\ UNCHANGED <<emitted, race, useSequelize, dummyGen, rank>>

----------------------------------------------------------------------------
(* The live key under evaluations that overlap: the poll loop's cycle and a *)
(* Read Gateway handler that missed the key both run                        *)
(*     total = await getTodayCount(); await redis.set(TODAY_COUNT, total)   *)

\* per caller: where its evaluation is and what it computed; startedBefore[c]
\* are the callers whose evaluation was in flight when c's began;
\* olderThanLast are the callers in flight whose evaluation began before the
\* one that produced the last value written; regressed says that such a
\* caller has overwritten a held value
NoRace ==
    [pc |-> [c \in Callers |-> "idle"], val |-> [c \in Callers |-> 0],
     startedBefore |-> [c \in Callers |-> {}], olderThanLast |-> {}, regressed |-> FALSE]

RaceInFlight == {c \in Callers : race.pc[c] # "idle"}

\* the loop starts a cycle (syncVisitors.ts:47-53), or a handler read the live
\* key, found nothing and calls getTodayCount (visitor.ts:56-60, 96-100, 470-475)
EvaluationBegins(c) ==
    /\ race.pc[c] = "idle"
    /\ c = "gateway" => ~liveKey.present
    /\ race' = [race EXCEPT !.pc[c] = "eval", !.startedBefore[c] = RaceInFlight]
    /\ UNCHANGED <<loopVars, pace, deltaVars, gateVars, sseVars, counterVars, corrupt, dailyVars,
                   trip, keyspace, emitted, useSequelize, dummyGen, rank>>

\* await getTodayCount() settles with v or throws
EvaluationSettles(c, ok, v) ==
    /\ race.pc[c] = "eval"
    /\ race' = IF ok THEN [race EXCEPT !.pc[c] = "write", !.val[c] = v]
               ELSE [race EXCEPT !.pc[c] = "idle", !.olderThanLast = @ \ {c}]
    /\ UNCHANGED <<loopVars, pace, deltaVars, gateVars, sseVars, counterVars, corrupt, dailyVars,
                   trip, keyspace, emitted, useSequelize, dummyGen, rank>>

\* await redis.set(CACHE_KEYS.TODAY_COUNT, String(total), 'EX', ttl) settles
\* (syncVisitors.ts:61, visitor.ts:61)
ResultStored(c, ok) ==
    /\ race.pc[c] = "write"
    /\ liveKey' = IF ok
                  THEN [present |-> TRUE, val |-> race.val[c],
                        ttl |-> IF c = "loop" THEN LiveTtl(0, 0) ELSE TODAY_TTL_SECONDS]
                  ELSE liveKey
    /\ race' = [race EXCEPT
                  !.pc[c] = "idle", !.val[c] = 0,
                  !.olderThanLast = IF ok THEN RaceInFlight \cap race.startedBefore[c]
                                    ELSE @ \ {c},
                  !.regressed = @ \/ (ok /\ liveKey.present /\ c \in race.olderThanLast)]
    /\ UNCHANGED <<loopOnly, pace, deltaVars, gateVars, sseVars, counterVars, corrupt, dailyVars,
                   trip, keyspace, emitted, useSequelize, dummyGen, rank>>

----------------------------------------------------------------------------
(* getTodayCount in delta mode with USE_SEQUELIZE: the baseline and the delta *)
(* are each two queries, a count and a max, awaited with Promise.all          *)

\* the first of the two queries answers: `which` says whether it is the count
\* or the max (visitorService.ts:96-99, 120-123); a rejection ends the call
SplitQueryFirst(c, which, ok) ==
    /\ ev[c].pc = "query"
    /\ ev' = [ev EXCEPT ![c] =
                IF ~ok THEN Thrown(ev[c])
                ELSE IF ev[c].needInit
                THEN IF which = "count"
                     THEN [ev[c] EXCEPT !.pc = "awaitMax", !.baseCount = QueryTodayBaseline.count]
                     ELSE [ev[c] EXCEPT !.pc = "awaitCount", !.baseMaxId = QueryTodayBaseline.maxId]
                ELSE LET q == QueryTodayDeltaAfter(ev[c].baseMaxId)
                     IN  IF which = "count"
                         THEN [ev[c] EXCEPT !.pc = "awaitMax", !.delta = q.delta]
                         ELSE [ev[c] EXCEPT !.pc = "awaitCount", !.newMax = q.newMax]]
    /\ UNCHANGED <<rows, localDay, utcDay, tz, dstate, inits>>

\* the other query answers, over the rows of its own moment, and the call goes
\* on as after a single query (visitorService.ts:177-179, 188-193)
SplitQuerySecond(c, ok) ==
    /\ ev[c].pc \in {"awaitMax", "awaitCount"}
    /\ ev' = [ev EXCEPT ![c] =
                IF ~ok THEN Thrown(ev[c])
                ELSE IF ev[c].needInit
                THEN IF ev[c].pc = "awaitMax"
                     THEN [ev[c] EXCEPT !.pc = "persist", !.baseMaxId = QueryTodayBaseline.maxId]
                     ELSE [ev[c] EXCEPT !.pc = "persist", !.baseCount = QueryTodayBaseline.count]
                ELSE LET q == QueryTodayDeltaAfter(ev[c].baseMaxId)
                         d == IF ev[c].pc = "awaitCount" THEN q.delta ELSE ev[c].delta
                         nm == IF ev[c].pc = "awaitMax" THEN q.newMax ELSE ev[c].newMax
                     IN  IF ShouldFold(d, nm, ev[c].baseMaxId)
                         THEN [ev[c] EXCEPT !.pc = "persist", !.delta = d, !.newMax = Nil,
                                            !.baseCount = FoldCount(ev[c].baseCount, d),
                                            !.baseMaxId = nm]
                         ELSE [ev[c] EXCEPT !.pc = "done", !.delta = d, !.newMax = Nil,
                                            !.ret = ev[c].baseCount]]
    /\ UNCHANGED <<rows, localDay, utcDay, tz, dstate, inits>>

\* a delta-mode call, step by step, with either kind of query; quiet counts
\* the calls that began and succeeded since the last row was inserted, and is
\* Nil while a call that was in flight at that insert has not been consumed
SplitCallStep(which, ok) ==
    /\ \/ BeginEval("loop", ok) /\ ev["loop"].pc = "idle" /\ UNCHANGED quiet
       \/ ~useSequelize /\ QueryDone("loop", ok) /\ UNCHANGED quiet
       \/ useSequelize /\ SplitQueryFirst("loop", which, ok) /\ UNCHANGED quiet
       \/ useSequelize /\ SplitQuerySecond("loop", ok) /\ UNCHANGED quiet
       \/ PersistDone("loop", ok) /\ UNCHANGED quiet
       \/ /\ Consume("loop")
          /\ quiet' = IF quiet = Nil THEN 0
                      ELSE IF ev["loop"].err THEN quiet ELSE Min(quiet + 1, 2)
    /\ UNCHANGED <<mode, istate, call, sinceChange>>
    /\ UNCHANGED <<loopVars, pace, gateVars, sseVars, miscVars>>

\* a visit is recorded at any moment, also in the middle of a call
RowInserted(day) ==
    /\ InsertRow(day)
    /\ quiet' = IF ev["loop"].pc = "idle" THEN 0 ELSE Nil
    /\ UNCHANGED <<mode, istate, call, sinceChange>>
    /\ UNCHANGED <<loopVars, pace, gateVars, sseVars, miscVars>>

----------------------------------------------------------------------------
(* Rankings of the current month and year across a change of month *)

MaxTurns == 2
MaxRanked == 1

\* month-scoped and year-scoped ranking keys of the two batch jobs
MonthRankKeys == {"TOP_MONTH_VISITORS", "TOP_MONTH_FACULTIES",
                  "BOOK_TOP_BORROWED_MONTH", "BOOK_TOP_BORROWERS_MONTH"}
YearRankKeys == {"TOP_YEAR_VISITORS", "TOP_YEAR_FACULTIES",
                 "BOOK_TOP_BORROWED_YEAR", "BOOK_TOP_BORROWERS_YEAR"}
RankKeys == MonthRankKeys \cup YearRankKeys

\* the month (year and month) or the year of date t, as key k scopes it
PeriodOf(k, t) == IF k \in MonthRankKeys THEN <<t.year, t.month>> ELSE <<t.year>>

NoPayload == [present |-> FALSE, at |-> [year |-> 0, month |-> 0], rows |-> 0]

\* now: the calendar; stored[k]: whether k holds a payload, when it was
\* computed and how many rows it has; answer: the last reply of a ranking
\* endpoint (label: the month / year it names, rowsOf: the one its rows were
\* computed for, current: the one of the moment of the reply)
NoRank ==
    [now |-> [year |-> 0, month |-> 0], turns |-> 0,
     stored |-> [k \in RankKeys |-> NoPayload],
     answer |-> [ep |-> "none", status |-> 0, label |-> << >>, rowsOf |-> << >>,
                 current |-> << >>]]

\* the calendar month changes, with the year or without
MonthTurns(newYear) ==
    /\ rank.turns < MaxTurns
    /\ rank' = [rank EXCEPT !.turns = @ + 1,
                            !.now = IF newYear THEN [year |-> @.year + 1, month |-> 0]
                                    ELSE [@ EXCEPT !.month = @ + 1]]
    /\ UNCHANGED <<loopVars, pace, deltaVars, gateVars, sseVars, counterVars, corrupt,
                   dailyVars, trip, keyspace, emitted, race, useSequelize, dummyGen>>

\* a batch run of domain d computes its rankings for the month and year of
\* now and writes them; a run that fails writes none
RankingRun(d, ok, n) ==
    /\ rank' = IF ok
               THEN [rank EXCEPT !.stored = [k \in RankKeys |->
                        IF k \in BatchKeys(d)
                        THEN [present |-> TRUE, at |-> rank.now, rows |-> n]
                        ELSE @[k]]]
               ELSE rank
    /\ UNCHANGED <<loopVars, pace, deltaVars, gateVars, sseVars, counterVars, corrupt,
                   dailyVars, trip, keyspace, emitted, race, useSequelize, dummyGen>>

\* 'EX', 90000 runs out for the keys a run of domain d wrote
RankingExpires(d) ==
    /\ \E k \in RankKeys \cap BatchKeys(d) : rank.stored[k].present
    /\ rank' = [rank EXCEPT !.stored = [k \in RankKeys |->
                                IF k \in BatchKeys(d) THEN NoPayload ELSE @[k]]]
    /\ UNCHANGED <<loopVars, pace, deltaVars, gateVars, sseVars, counterVars, corrupt,
                   dailyVars, trip, keyspace, emitted, race, useSequelize, dummyGen>>

\* rows.length > 0 && rows[0].month === currentMonth (or .year === currentYear)
RowsAreCurrent(k, p) == p.rows > 0 /\ PeriodOf(k, p.at) = PeriodOf(k, rank.now)

Warming202(k) ==
    [ep |-> k, status |-> 202, label |-> PeriodOf(k, rank.now), rowsOf |-> << >>,
     current |-> PeriodOf(k, rank.now)]

\* GET of a month / year ranking: the visitor handlers compare the period the
\* rows carry with the current one and answer with the rows' own; the book
\* handlers answer whatever is stored under the current period
HandleRanking(k) ==
    /\ LET p == rank.stored[k]
           cur == PeriodOf(k, rank.now)
       IN  rank' = [rank EXCEPT !.answer =
                      IF ~p.present THEN Warming202(k)
                      ELSE IF k \in PeriodChecked
                      THEN IF RowsAreCurrent(k, p)
                           THEN [ep |-> k, status |-> 200, label |-> PeriodOf(k, p.at),
                                 rowsOf |-> PeriodOf(k, p.at), current |-> cur]
                           ELSE Warming202(k)
                      ELSE [ep |-> k, status |-> 200, label |-> cur,
                            rowsOf |-> PeriodOf(k, p.at), current |-> cur]]
    /\ UNCHANGED <<loopVars, pace, deltaVars, gateVars, sseVars, counterVars, corrupt,
                   dailyVars, trip, keyspace, emitted, race, useSequelize, dummyGen>>

----------------------------------------------------------------------------
(* The dummy visitor generator: startDummyGeneration, stopDummyGeneration *)

MaxTimers == 3

\* let dummyGenerationInterval = null; let isDummyGenerationRunning = false;
\* timers are the intervals that are set and not cleared, made counts the
\* setInterval calls, reply is what the last call of an endpoint answered
NoDummy ==
    [isDummyGenerationRunning |-> FALSE, dummyGenerationInterval |-> Nil,
     timers |-> {}, made |-> 0,
     reply |-> [op |-> "none", success |-> FALSE, running |-> FALSE, hasInterval |-> FALSE]]

Refused(op) ==
    [dummyGen EXCEPT !.reply = [op |-> op, success |-> FALSE, running |-> FALSE,
                                hasInterval |-> FALSE]]

Done(g, op) ==
    [g EXCEPT !.reply = [op |-> op, success |-> TRUE, running |-> FALSE,
                         hasInterval |-> FALSE]]

AlreadyRunning_Never == FALSE

\* if (isDummyGenerationRunning) return { success: false, ... }
AlreadyRunning == dummyGen.isDummyGenerationRunning

\* POST /api/visitors/dummy/start: startDummyGeneration()
StartDummyGeneration ==
    /\ AlreadyRunning \/ dummyGen.made < MaxTimers
    /\ dummyGen' = IF AlreadyRunning THEN Refused("start")
                   ELSE LET t == dummyGen.made + 1
                        IN  Done([dummyGen EXCEPT !.isDummyGenerationRunning = TRUE,
                                                  !.dummyGenerationInterval = t,
                                                  !.timers = @ \cup {t},
                                                  !.made = t], "start")
    /\ UNCHANGED deltaVars
    /\ UNCHANGED <<loopVars, pace, gateVars, sseVars, counterVars, corrupt,
                   dailyVars, trip, keyspace, emitted, race, useSequelize, rank>>

\* POST /api/visitors/dummy/stop: stopDummyGeneration()
StopDummyGeneration ==
    /\ dummyGen' = IF ~dummyGen.isDummyGenerationRunning THEN Refused("stop")
                   ELSE LET t == dummyGen.dummyGenerationInterval
                        IN  Done([dummyGen EXCEPT !.isDummyGenerationRunning = FALSE,
                                                  !.dummyGenerationInterval = Nil,
                                                  !.timers = IF t # Nil THEN @ \ {t} ELSE @],
                                 "stop")
    /\ UNCHANGED deltaVars
    /\ UNCHANGED <<loopVars, pace, gateVars, sseVars, counterVars, corrupt,
                   dailyVars, trip, keyspace, emitted, race, useSequelize, rank>>

\* GET /api/visitors/dummy/status
DummyStatus ==
    /\ dummyGen' = [dummyGen EXCEPT !.reply =
                      [op |-> "status", success |-> TRUE,
                       running |-> dummyGen.isDummyGenerationRunning,
                       hasInterval |-> dummyGen.dummyGenerationInterval # Nil]]
    /\ UNCHANGED deltaVars
    /\ UNCHANGED <<loopVars, pace, gateVars, sseVars, counterVars, corrupt,
                   dailyVars, trip, keyspace, emitted, race, useSequelize, rank>>

\* an interval that is set fires: generateDummyVisitor inserts a row dated
\* within the last 24 hours, or throws and the callback logs it
\* (incrementTodayCount does nothing outside incremental mode)
DummyTimerFires(t, day, ok) ==
    /\ t \in dummyGen.timers
    /\ mode # "incremental"
    /\ IF ok THEN InsertRow(day) ELSE UNCHANGED deltaVars
    /\ UNCHANGED dummyGen
    /\ UNCHANGED <<loopVars, pace, gateVars, sseVars, counterVars, corrupt,
                   dailyVars, trip, keyspace, emitted, race, useSequelize, rank>>


----------------------------------------------------------------------------
(* Live Counter, all three strategies: getTodayCount called again and again  *)
(* while visits are recorded, midnight passes and then nothing changes        *)

Modes == {"direct", "incremental", "delta"}

\* RECON_INTERVAL = 60_000 ms, in ticks of 30 s
RECON_TICKS == 2

\* elapsed times are followed up to here: only `> RECON_TICKS` is ever asked
RCap == RECON_TICKS + 1

After(t) == Min(t + 1, RCap)

\* visitors:today:base / :incremental, the age of :lastrecon (RCap: absent or
\* older than the interval), and increments generateDummyVisitor still owes
NoIncState == [base |-> Nil, inc |-> Nil, sinceRecon |-> RCap, pending |-> 0]

\* a direct or incremental call: `late` says it began more than one interval
\* after the last change; `elapsed` is the time since it took `now`
IdleCall == [pc |-> "idle", recon |-> FALSE, real |-> Nil, late |-> FALSE,
             elapsed |-> 0, ret |-> Nil, err |-> FALSE]

CallThrown_Swallowed(c) == [c EXCEPT !.pc = "done", !.ret = 0, !.err = FALSE]

CallThrown(c) == [c EXCEPT !.pc = "done", !.ret = Nil, !.err = TRUE]

\* queryTodayFromDb: rows of the server-local date
QueryTodayFromDb == Cardinality(TodayIds)

NoCallInFlight == call.pc = "idle" /\ \A c \in Callers : ev[c].pc = "idle"

ReconDue_Never(sinceRecon) == FALSE

\* visitorService.ts:145   now - lastRecon > RECON_INTERVAL
ReconDue(sinceRecon) == sinceRecon > RECON_TICKS

\* getTodayCount, direct or incremental, up to its first query
CounterBegin(ok) ==
    /\ mode \in {"direct", "incremental"}
    /\ call.pc = "idle"
    /\ call' = IF mode = "direct" THEN [IdleCall EXCEPT !.pc = "query"]
               ELSE IF ~ok THEN CallThrown(IdleCall)
               ELSE LET recon == ReconDue(istate.sinceRecon)
                    IN  [IdleCall EXCEPT !.pc = IF recon THEN "query" ELSE "read",
                                         !.recon = recon,
                                         !.late = (sinceChange > RECON_TICKS)]
    /\ UNCHANGED <<mode, istate, sinceChange, quiet>>
    /\ UNCHANGED <<loopVars, pace, deltaVars, gateVars, sseVars, miscVars>>

\* queryTodayFromDb answers
CounterQuery(ok) ==
    /\ call.pc = "query"
    /\ call' = IF ~ok THEN CallThrown(call)
               ELSE IF mode = "direct"
                    THEN [call EXCEPT !.pc = "done", !.real = QueryTodayFromDb,
                                      !.ret = QueryTodayFromDb]
                    ELSE [call EXCEPT !.pc = "persist", !.real = QueryTodayFromDb]
    /\ UNCHANGED <<mode, istate, sinceChange, quiet>>
    /\ UNCHANGED <<loopVars, pace, deltaVars, gateVars, sseVars, miscVars>>

\* the reconciliation's redis.multi()...exec() settles
CounterPersist(ok) ==
    /\ call.pc = "persist"
    /\ IF ok
       THEN /\ istate' = [istate EXCEPT !.base = call.real, !.inc = 0,
                                        !.sinceRecon = call.elapsed]
            /\ call' = [call EXCEPT !.pc = "read"]
       ELSE /\ call' = CallThrown(call)
            /\ UNCHANGED istate
    /\ UNCHANGED <<mode, sinceChange, quiet>>
    /\ UNCHANGED <<loopVars, pace, deltaVars, gateVars, sseVars, miscVars>>

\* base and increment are read and added
CounterRead(ok) ==
    /\ call.pc = "read"
    /\ call' = IF ~ok THEN CallThrown(call)
               ELSE [call EXCEPT !.pc = "done",
                                 !.ret = (IF istate.base = Nil THEN 0 ELSE istate.base)
                                         + (IF istate.inc = Nil THEN 0 ELSE istate.inc)]
    /\ UNCHANGED <<mode, istate, sinceChange, quiet>>
    /\ UNCHANGED <<loopVars, pace, deltaVars, gateVars, sseVars, miscVars>>

\* the caller takes the result; quiet counts the calls that succeeded since
\* the last change
CounterConsume ==
    /\ call.pc = "done"
    /\ call' = IdleCall
    /\ quiet' = IF call.err THEN quiet ELSE Min(quiet + 1, 2)
    /\ UNCHANGED <<mode, istate, sinceChange>>
    /\ UNCHANGED <<loopVars, pace, deltaVars, gateVars, sseVars, miscVars>>

\* a delta-mode call, step by step
DeltaCallStep(ok) ==
    /\ mode = "delta"
    /\ \/ BeginEval("loop", ok) /\ ev["loop"].pc = "idle" /\ UNCHANGED quiet
       \/ QueryDone("loop", ok) /\ UNCHANGED quiet
       \/ PersistDone("loop", ok) /\ UNCHANGED quiet
       \/ /\ Consume("loop")
          /\ quiet' = IF ev["loop"].err THEN quiet ELSE Min(quiet + 1, 2)
    /\ UNCHANGED <<mode, istate, call, sinceChange>>
    /\ UNCHANGED <<loopVars, pace, gateVars, sseVars, miscVars>>

\* between calls a visit is recorded, by the library system or (dummy) by
\* generateDummyVisitor, which owes an incrementTodayCount afterwards
VisitRecorded(day, dummy) ==
    /\ NoCallInFlight
    /\ InsertRow(day)
    /\ istate' = IF dummy /\ mode = "incremental"
                 THEN [istate EXCEPT !.pending = @ + 1] ELSE istate
    /\ sinceChange' = 0
    /\ quiet' = 0
    /\ UNCHANGED <<mode, call>>
    /\ UNCHANGED <<loopVars, pace, gateVars, sseVars, miscVars>>

\* incrementTodayCount(by): redis.incrby on the increment key, whatever a
\* getTodayCount call is doing meanwhile (by = 1 is what a recorded visit owes)
IncrementTodayCount(by) ==
    /\ istate.pending > 0
    /\ istate' = [istate EXCEPT !.pending = @ - 1,
                                !.inc = (IF @ = Nil THEN 0 ELSE @) + by]
    /\ sinceChange' = 0
    /\ quiet' = 0
    /\ UNCHANGED <<mode, call>>
    /\ UNCHANGED <<loopVars, pace, deltaVars, gateVars, sseVars, miscVars>>

\* between calls midnight passes
DateChanges ==
    /\ NoCallInFlight
    /\ Midnight
    /\ sinceChange' = 0
    /\ quiet' = 0
    /\ UNCHANGED <<mode, istate, call>>
    /\ UNCHANGED <<loopVars, pace, gateVars, sseVars, miscVars>>

\* 30 s pass
TimePasses ==
    /\ \/ sinceChange < RCap
       \/ istate.sinceRecon < RCap
       \/ call.pc # "idle" /\ call.elapsed < RCap
    /\ sinceChange' = After(sinceChange)
    /\ istate' = [istate EXCEPT !.sinceRecon = After(@)]
    /\ call' = IF call.pc = "idle" THEN call ELSE [call EXCEPT !.elapsed = After(@)]
    /\ UNCHANGED <<mode, quiet>>
    /\ UNCHANGED <<loopVars, pace, deltaVars, gateVars, sseVars, miscVars>>

CounterOff ==
    /\ mode = "direct"
    /\ istate = NoIncState
    /\ call = IdleCall
    /\ sinceChange = 0
    /\ quiet = 0

MiscOff ==
    /\ trip = NoTrip
    /\ keyspace = NoKeyspace
    /\ emitted = Nil
    /\ race = NoRace
    /\ useSequelize = FALSE
    /\ dummyGen = NoDummy
    /\ rank = NoRank
    /\ corrupt = {}
    /\ hour = 0
    /\ age = [d \in Domains |-> Nil]
    /\ ran = [d \in Domains |-> "boot"]
    /\ found = "none"

MoreOff == CounterOff /\ MiscOff

----------------------------------------------------------------------------
(* Adaptive poll loop: registerVisitorSyncJob / runFastLoop / loop *)

\* a runFastLoop() invocation that never passed its start guard.  `after` says
\* how the pending timer was set: "skip" by the early return, otherwise by the
\* finally block after a cycle that ended "ok", "evalFail", "setFail", "emitFail".
NoLoop == [pc |-> "none", delay |-> 0, after |-> "none", sinceLast |-> 0,
           avgRun |-> 0, runs |-> 0, effectiveMin |-> 0, today |-> 0, ttl |-> 0]

\* let lastStart = 0; let avgRun = 0; let runs = 0  (lastStart = 0 is "long ago")
NewLoop == [NoLoop EXCEPT !.sinceLast = TCap]

CanStartFastLoop_NoGuard == TRUE

CanStartFastLoop_WhenIdle == ~fastJobRunning

\* syncVisitors.ts:19   if (fastLoopStarted) return;
CanStartFastLoop == ~fastLoopStarted

NextDelayAfterRun_Backoff(ok) == IF ok THEN cfg.bufferMs ELSE 2 * cfg.bufferMs

\* syncVisitors.ts:77   setTimeout(loop, bufferMs) in the finally block
NextDelayAfterRun(ok) == cfg.bufferMs

LoopEntered_NoWait(s, since) ==
    [s EXCEPT !.pc = "eval", !.delay = 0, !.after = "none",
              !.sinceLast = 0, !.effectiveMin = EffectiveMin(s.avgRun, s.runs)]

\* `loop` from its entry to its first await or its early return
\* (syncVisitors.ts:31-53), entered `since` ms after lastStart
LoopEntered(s, since) ==
    LET eff == EffectiveMin(s.avgRun, s.runs)
    IN  IF since < eff
        THEN [s EXCEPT !.pc = "timer", !.delay = eff - since, !.after = "skip",
                       !.sinceLast = since, !.effectiveMin = eff]
        ELSE [s EXCEPT !.pc = "eval", !.delay = 0, !.after = "none",
                       !.sinceLast = 0, !.effectiveMin = eff]

Finally_CountsRun(s, outcome) ==
    [s EXCEPT !.pc = "timer", !.delay = cfg.bufferMs, !.after = outcome,
              !.today = 0, !.ttl = 0, !.runs = Min(s.runs + 1, MaxRuns)]

\* the finally block (syncVisitors.ts:74-78)
Finally(s, outcome) ==
    [s EXCEPT !.pc = "timer", !.delay = NextDelayAfterRun(outcome = "ok"),
              !.after = outcome, !.today = 0, !.ttl = 0]

InFlight == {c \in Chains : fl[c].pc \in {"eval", "write"}}
Pending == {c \in Chains : fl[c].pc = "timer"}

\* runFastLoop() and its first loop() call, which run synchronously inside
\* registerVisitorSyncJob()
RunFastLoop ==
    /\ registerCalls < MaxRegister
    /\ registerCalls' = registerCalls + 1
    /\ IF CanStartFastLoop
       THEN /\ fastLoopStarted' = TRUE
            /\ fl' = [fl EXCEPT ![registerCalls + 1] = LoopEntered(NewLoop, TCap)]
            /\ fastJobRunning' = (fl'[registerCalls + 1].pc = "eval" \/ fastJobRunning)
       ELSE UNCHANGED <<fastLoopStarted, fl, fastJobRunning>>

\* registerVisitorSyncJob() called on its own; the cron.schedule call is the
\* batch aggregator's
RegisterVisitorSyncJob ==
    /\ RunFastLoop
    /\ UNCHANGED <<cfg, liveKey, pace>>
    /\ UNCHANGED <<deltaVars, gateVars, sseVars, moreVars>>

\* start() after its await of both prewarms (index.ts:126-142):
\* registerVisitorSyncJob() starts the poll loop, the cron jobs are
\* registered and the server listens
Listen ==
    /\ phase = "boot"
    /\ PrewarmSettled
    /\ phase' = "serving"
    /\ RunFastLoop
    /\ UNCHANGED <<store, batch, gen, clock, resp>>
    /\ UNCHANGED <<cfg, liveKey, pace, deltaVars, sseVars, moreVars>>

\* a setTimeout(loop, delay) timer fires, `late` ms after it was due
LoopTimerFires(c, late) ==
    /\ fl[c].pc = "timer"
    /\ fl' = [fl EXCEPT ![c] = LoopEntered(fl[c], Sat(fl[c].sinceLast + fl[c].delay + late))]
    /\ fastJobRunning' = (fl'[c].pc = "eval" \/ fastJobRunning)
    /\ UNCHANGED <<cfg, fastLoopStarted, registerCalls, liveKey, pace>>
    /\ UNCHANGED <<deltaVars, gateVars, sseVars, moreVars>>

\* await getTodayCount() settles after d ms (syncVisitors.ts:53-60)
EvalDone(c, d, ok, v) ==
    /\ fl[c].pc = "eval"
    /\ LET s == [fl[c] EXCEPT !.sinceLast = Sat(fl[c].sinceLast + d)]
       IN  IF ok
           THEN /\ fl' = [fl EXCEPT ![c] = [s EXCEPT !.pc = "write", !.today = v,
                                              !.ttl = LiveTtl(s.effectiveMin, s.runs)]]
                /\ UNCHANGED fastJobRunning
           ELSE /\ fl' = [fl EXCEPT ![c] = Finally(s, "evalFail")]
                /\ fastJobRunning' = FALSE
    /\ UNCHANGED <<cfg, fastLoopStarted, registerCalls, liveKey, pace>>
    /\ UNCHANGED <<deltaVars, gateVars, sseVars, moreVars>>

\* await redis.set(TODAY_COUNT, ...) settles after d ms, then emitTodayVisitor,
\* the pacing sample and the finally block (syncVisitors.ts:61-78)
WriteSettled(c, d, outcome) ==
    /\ fl[c].pc = "write"
    /\ LET s == [fl[c] EXCEPT !.sinceLast = Sat(fl[c].sinceLast + d)]
       IN  /\ liveKey' = IF outcome = "setFail" THEN liveKey
                         ELSE [present |-> TRUE, val |-> s.today, ttl |-> s.ttl]
           /\ fl' = [fl EXCEPT ![c] =
                       IF outcome = "ok"
                       THEN Finally([s EXCEPT !.runs = Min(s.runs + 1, MaxRuns),
                                              !.avgRun = NextAvg(s.avgRun, s.sinceLast)], "ok")
                       ELSE Finally(s, outcome)]
    /\ fastJobRunning' = FALSE
    /\ UNCHANGED <<cfg, fastLoopStarted, registerCalls, pace>>

\* the same with no subscriber state to follow
WriteDone(c, d, outcome) ==
    /\ WriteSettled(c, d, outcome)
    /\ UNCHANGED <<deltaVars, gateVars, sseVars, moreVars>>

Publishes_BeforeWrite(outcome) == TRUE

\* syncVisitors.ts:61-62: emitTodayVisitor(today) is reached when the awaited
\* redis.set has resolved
Publishes(outcome) == outcome = "ok"

\* await redis.set(TODAY_COUNT, ...) settles and, the write having succeeded,
\* emitTodayVisitor(today) hands the cycle's value to every listener
\* (syncVisitors.ts:61-78); the listeners of visitor.ts:109-111 do not throw
WriteThenEmit(c, d, outcome) ==
    /\ WriteSettled(c, d, outcome)
    /\ IF Publishes(outcome)
       THEN /\ Emit
            /\ emitted' = fl[c].today
       ELSE UNCHANGED <<sseVars, emitted>>
    /\ UNCHANGED <<deltaVars, gateVars, counterVars, corrupt, dailyVars, trip, keyspace, race,
                   useSequelize, dummyGen, rank>>

NoPace == [avgRun |-> 0, runs |-> 0, done |-> FALSE, out |-> 0, ttl |-> 0]

InitLoop ==
    /\ cfg \in Configs
    /\ fastLoopStarted = FALSE
    /\ fastJobRunning = FALSE
    /\ registerCalls = 0
    /\ fl = [c \in Chains |-> NoLoop]
    /\ liveKey = NoKey
    /\ pace = NoPace
    /\ DeltaOff
    /\ GateOff
    /\ SseOff
    /\ MoreOff

NextLoop ==
    \/ RegisterVisitorSyncJob
    \/ \E c \in Chains, late \in Lateness : LoopTimerFires(c, late)
    \/ \E c \in Chains, d \in Durations, ok \in BOOLEAN, v \in TodayVals : EvalDone(c, d, ok, v)
    \/ \E c \in Chains, d \in Durations, o \in {"ok", "setFail", "emitFail"} : WriteDone(c, d, o)

SpecLoop == InitLoop /\ [][NextLoop]_vars

\* the configurations the liveness check runs over: pacing static and adaptive,
\* the configured interval below and above what the floors allow
FairConfigs == {c \in Configs : c.TARGET_MULTIPLIER = 3 /\ c.HARD_FLOOR_MS = 3}

InitLoopFair == InitLoop /\ cfg \in FairConfigs

\* Node's event loop fires every due timer; each await of the loop body settles.
FairSpecLoop ==
    /\ InitLoopFair
    /\ [][NextLoop]_vars
    /\ WF_vars(\E c \in Chains, late \in Lateness : LoopTimerFires(c, late))
    /\ WF_vars(\E c \in Chains, d \in Durations, ok \in BOOLEAN, v \in TodayVals : EvalDone(c, d, ok, v))
    /\ WF_vars(\E c \in Chains, d \in Durations, o \in {"ok", "setFail", "emitFail"} : WriteDone(c, d, o))

----------------------------------------------------------------------------
(* effectiveMin as a function of its inputs *)

PaceConfigs ==
    [ minIntervalMs     : {100, 1000, 5000},
      bufferMs          : {200},
      ADAPTIVE_ENABLED  : BOOLEAN,
      HARD_FLOOR_MS     : {150, 2000},
      TARGET_MULTIPLIER : {1, 20},
      SOFT_FLOOR_MS     : {50, 400} ]

\* average durations from 0 ("near zero") to MaxAvgMs seconds, in 1/AvgScale ms
PaceAvgRuns == {0, 1, 5 * AvgScale, 50 * AvgScale, 400 * AvgScale, MaxAvgMs * 1000 * AvgScale}

InitPacing ==
    /\ cfg \in PaceConfigs
    /\ pace \in [avgRun : PaceAvgRuns, runs : {0, MIN_SAMPLES, MIN_SAMPLES + 1, MaxRuns},
                 done : {FALSE}, out : {0}, ttl : {0}]
    /\ fastLoopStarted = FALSE
    /\ fastJobRunning = FALSE
    /\ registerCalls = 0
    /\ fl = [c \in Chains |-> NoLoop]
    /\ liveKey = NoKey
    /\ DeltaOff
    /\ GateOff
    /\ SseOff
    /\ MoreOff

\* one evaluation of syncVisitors.ts:33-41, and of the TTL the same cycle
\* computes from it (syncVisitors.ts:58-60)
ComputeEffectiveMin ==
    /\ ~pace.done
    /\ pace' = [pace EXCEPT !.done = TRUE, !.out = EffectiveMin(pace.avgRun, pace.runs),
                            !.ttl = LiveTtl(EffectiveMin(pace.avgRun, pace.runs), pace.runs)]
    /\ UNCHANGED loopVars
    /\ UNCHANGED <<deltaVars, gateVars, sseVars, moreVars>>

NextPacing == ComputeEffectiveMin

SpecPacing == InitPacing /\ [][NextPacing]_vars

----------------------------------------------------------------------------
(* Delta-mode live counter under sequential calls *)

LoopOff ==
    /\ cfg \in {c \in Configs : ~c.ADAPTIVE_ENABLED /\ c.minIntervalMs = 2
                                /\ c.HARD_FLOOR_MS = 1 /\ c.TARGET_MULTIPLIER = 1}
    /\ fastLoopStarted = FALSE
    /\ fastJobRunning = FALSE
    /\ registerCalls = 0
    /\ fl = [c \in Chains |-> NoLoop]
    /\ liveKey = NoKey
    /\ pace = NoPace

InitDelta ==
    /\ LoopOff
    /\ GateOff
    /\ SseOff
    /\ MoreOff
    /\ rows = << >>
    /\ localDay = 0
    /\ utcDay = 0
    /\ tz \in {"same", "ahead", "behind"}
    /\ dstate = [k \in DeltaKeys |-> Nil]
    /\ ev = [c \in Callers |-> IdleEval]
    /\ inits = [d \in Days |-> 0]

DeltaEnv ==
    \/ \E day \in Days : InsertRow(day)
    \/ Midnight
    \/ \E k \in DeltaKeys : LoseKey(k)

\* getTodayCount calls made one after the other; which caller makes them makes
\* no difference to the function, so one caller makes them all
SeqCallers == {"loop"}

NextDeltaSeq ==
    \/ /\ \E c \in SeqCallers, ok \in BOOLEAN : BeginEval(c, ok)
       /\ UNCHANGED <<loopVars, pace, gateVars, sseVars, moreVars>>
    \/ /\ \E c \in SeqCallers : Consume(c)
       /\ UNCHANGED <<loopVars, pace, gateVars, sseVars, moreVars>>
    \/ /\ \E c \in SeqCallers, ok \in BOOLEAN : QueryDone(c, ok)
       /\ UNCHANGED <<loopVars, pace, gateVars, sseVars, moreVars>>
    \/ /\ \E c \in SeqCallers, ok \in BOOLEAN : PersistDone(c, ok)
       /\ UNCHANGED <<loopVars, pace, gateVars, sseVars, moreVars>>
    \/ /\ DeltaEnv
       /\ UNCHANGED <<loopVars, pace, gateVars, sseVars, moreVars>>

SpecDeltaSeq == InitDelta /\ [][NextDeltaSeq]_vars

\* the same calls over a store whose state keys stay in place
NextFold ==
    \/ /\ \E c \in SeqCallers, ok \in BOOLEAN : BeginEval(c, ok)
       /\ UNCHANGED <<loopVars, pace, gateVars, sseVars, moreVars>>
    \/ /\ \E c \in SeqCallers : Consume(c)
       /\ UNCHANGED <<loopVars, pace, gateVars, sseVars, moreVars>>
    \/ /\ \E c \in SeqCallers, ok \in BOOLEAN : QueryDone(c, ok)
       /\ UNCHANGED <<loopVars, pace, gateVars, sseVars, moreVars>>
    \/ /\ \E c \in SeqCallers, ok \in BOOLEAN : PersistDone(c, ok)
       /\ UNCHANGED <<loopVars, pace, gateVars, sseVars, moreVars>>
    \/ /\ \E day \in Days : InsertRow(day)
       /\ UNCHANGED <<loopVars, pace, gateVars, sseVars, moreVars>>
    \/ /\ Midnight
       /\ UNCHANGED <<loopVars, pace, gateVars, sseVars, moreVars>>

SpecFold == InitDelta /\ [][NextFold]_vars

----------------------------------------------------------------------------
(* Batch aggregators: prewarm at start, then cron runs *)

InitBatch ==
    /\ LoopOff
    /\ DeltaOff
    /\ GateOff
    /\ SseOff
    /\ MoreOff

NextBatch ==
    \/ Start
    \/ Listen
    \/ \E s \in RunSlots, d \in Domains : CronFires(s, d)
    \/ \E s \in RunSlots, failedQ \in SUBSET (1..6) : QueriesSettle(s, failedQ)
    \/ \E s \in RunSlots, ok \in BOOLEAN : WriteSettles(s, ok, 0)
    \/ Tick

SpecBatch == InitBatch /\ [][NextBatch]_vars

----------------------------------------------------------------------------
(* Read Gateway: the server is started and prewarmed, then its handlers answer *)
(* requests while cached entries expire                                        *)

InitGateway ==
    /\ LoopOff
    /\ DeltaOff
    /\ GateOff
    /\ SseOff
    /\ MoreOff

NextGateway ==
    \/ Start
    \/ \E s \in RunSlots, failedQ \in SUBSET (1..6) : QueriesSettle(s, failedQ)
    \/ \E s \in RunSlots, ok \in BOOLEAN : WriteSettles(s, ok, 0)
    \/ Listen
    \/ (phase = "serving" /\ Tick)
    \/ LiveKeyExpires
    \/ \E k \in AggregateKeys, readOk \in BOOLEAN : HandleAggregate(k, readOk, TRUE)
    \/ \E k \in PeriodChecked : HandleAggregate(k, TRUE, FALSE)
    \/ \E readOk \in BOOLEAN, evalOk \in BOOLEAN, v \in TodayVals, setOk \in BOOLEAN :
            HandleToday(readOk, evalOk, v, setOk)
    \/ \E readOk \in BOOLEAN, liveReadOk \in BOOLEAN, evalOk \in BOOLEAN,
          v \in TodayVals, setOk \in BOOLEAN :
            HandleVisitorSummary(readOk, liveReadOk, evalOk, v, setOk)

SpecGateway == InitGateway /\ [][NextGateway]_vars

----------------------------------------------------------------------------
(* SSE connections against the broadcaster *)

InitStream ==
    /\ LoopOff
    /\ DeltaOff
    /\ GateOff
    /\ SseOff
    /\ MoreOff

NextStream ==
    \/ \E c \in ConnIds : Connect(c)
    \/ \E c \in ConnIds, readOk \in BOOLEAN, evalOk \in BOOLEAN, v \in TodayVals,
          setOk \in BOOLEAN : InitialLoadDone(c, readOk, evalOk, v, setOk)
    \/ \E c \in ConnIds : ConnectionCloses(c)
    \/ EmitTodayVisitor
    \/ \E c \in ConnIds : HeartbeatFires(c)
    \/ LiveKeyExpires

SpecStream == InitStream /\ [][NextStream]_vars

----------------------------------------------------------------------------
(* The three strategies of the Live Counter side by side *)

InitCounter ==
    /\ LoopOff
    /\ GateOff
    /\ SseOff
    /\ mode \in Modes
    /\ rows = << >>
    /\ localDay = 0
    /\ utcDay = 0
    /\ tz \in IF mode = "delta" THEN {"same", "ahead", "behind"} ELSE {"same"}
    /\ dstate = [k \in DeltaKeys |-> Nil]
    /\ ev = [c \in Callers |-> IdleEval]
    /\ inits = [d \in Days |-> 0]
    /\ istate = NoIncState
    /\ call = IdleCall
    /\ sinceChange = 0
    /\ quiet = 0
    /\ MiscOff

NextCounter ==
    \/ \E ok \in BOOLEAN : CounterBegin(ok)
    \/ \E ok \in BOOLEAN : CounterQuery(ok)
    \/ \E ok \in BOOLEAN : CounterPersist(ok)
    \/ \E ok \in BOOLEAN : CounterRead(ok)
    \/ CounterConsume
    \/ \E ok \in BOOLEAN : DeltaCallStep(ok)
    \/ \E day \in Days, dummy \in BOOLEAN : VisitRecorded(day, dummy)
    \/ NoCallInFlight /\ IncrementTodayCount(1)
    \/ DateChanges
    \/ TimePasses

SpecCounter == InitCounter /\ [][NextCounter]_vars

\* the Live Counter within one day; in the incremental strategy
\* incrementTodayCount runs concurrently with getTodayCount and is called
\* once per visit, not at all (a visit recorded by the library system) or
\* for twice the visit (by = 2)
NextRecon ==
    \/ \E ok \in BOOLEAN : CounterBegin(ok)
    \/ \E ok \in BOOLEAN : CounterQuery(ok)
    \/ \E ok \in BOOLEAN : CounterPersist(ok)
    \/ \E ok \in BOOLEAN : CounterRead(ok)
    \/ CounterConsume
    \/ \E ok \in BOOLEAN : DeltaCallStep(ok)
    \/ \E day \in Days, dummy \in BOOLEAN : VisitRecorded(day, dummy)
    \/ \E by \in {1, 2} : IncrementTodayCount(by)
    \/ TimePasses

SpecRecon == InitCounter /\ [][NextRecon]_vars

----------------------------------------------------------------------------
(* The poll loop and a Read Gateway request both calling getTodayCount *)

\* a loop cycle calls getTodayCount whatever the live key holds
LoopEvaluates(ok) ==
    /\ ev["loop"].pc = "idle"
    /\ BeginEval("loop", ok)
    /\ UNCHANGED <<loopVars, pace, gateVars, sseVars, moreVars>>

\* a handler of the live metric read the live key, found nothing and calls
\* getTodayCount
GatewayFallsBack(ok) ==
    /\ ev["gateway"].pc = "idle"
    /\ ~liveKey.present
    /\ BeginEval("gateway", ok)
    /\ UNCHANGED <<loopVars, pace, gateVars, sseVars, moreVars>>

\* an await inside getTodayCount settles
CallerStep(c, ok) ==
    /\ QueryDone(c, ok) \/ PersistDone(c, ok)
    /\ UNCHANGED <<loopVars, pace, gateVars, sseVars, moreVars>>

\* the caller's redis.set(TODAY_COUNT, ...) after its getTodayCount returned
CallerStores(c, setOk) ==
    /\ Consume(c)
    /\ liveKey' = IF ev[c].err \/ ~setOk THEN liveKey
                  ELSE [present |-> TRUE, val |-> ev[c].ret,
                        ttl |-> IF c = "loop" THEN LiveTtl(0, 0) ELSE TODAY_TTL_SECONDS]
    /\ UNCHANGED <<loopOnly, pace, gateVars, sseVars, moreVars>>

InitOverlap ==
    /\ LoopOff
    /\ GateOff
    /\ SseOff
    /\ MoreOff
    /\ rows = << >>
    /\ localDay = 0
    /\ utcDay = 0
    /\ tz = "same"
    /\ dstate = [k \in DeltaKeys |-> Nil]
    /\ ev = [c \in Callers |-> IdleEval]
    /\ inits = [d \in Days |-> 0]

NextOverlap ==
    \/ \E ok \in BOOLEAN : LoopEvaluates(ok)
    \/ \E ok \in BOOLEAN : GatewayFallsBack(ok)
    \/ \E c \in Callers, ok \in BOOLEAN : CallerStep(c, ok)
    \/ \E c \in Callers, setOk \in BOOLEAN : CallerStores(c, setOk)
    \/ LiveKeyExpires
    \/ /\ \E day \in Days : InsertRow(day)
       /\ UNCHANGED <<loopVars, pace, gateVars, sseVars, moreVars>>

SpecOverlap == InitOverlap /\ [][NextOverlap]_vars

----------------------------------------------------------------------------
(* Read Gateway over a prewarmed store some of whose strings get damaged *)

NextDecode ==
    \/ Start
    \/ \E s \in RunSlots : QueriesSettle(s, {})
    \/ \E s \in RunSlots : WriteSettles(s, TRUE, 0)
    \/ Listen
    \/ \E k \in AggregateKeys \cup {"TODAY_COUNT"} : PayloadDamaged(k)
    \/ \E k \in AggregateKeys : HandleAggregate(k, TRUE, TRUE)
    \/ \E v \in TodayVals : HandleToday(TRUE, TRUE, v, TRUE)
    \/ \E v \in TodayVals : HandleVisitorSummary(TRUE, TRUE, TRUE, v, TRUE)

SpecDecode == InitGateway /\ [][NextDecode]_vars

----------------------------------------------------------------------------
(* Batch aggregators at start-up, with the time their writes take *)

NextStamp ==
    \/ Start
    \/ \E s \in RunSlots, failedQ \in SUBSET (1..6) : QueriesSettle(s, failedQ)
    \/ \E s \in RunSlots, ok \in BOOLEAN, d \in Durations : WriteSettles(s, ok, d)
    \/ Listen

SpecStamp == InitBatch /\ [][NextStamp]_vars

----------------------------------------------------------------------------
(* The daily schedule: prewarm at start, one run per domain shortly after  *)
(* midnight, keys expiring one TTL after they were written.  Time is in    *)
(* hours; a run and its writes take a few seconds.                         *)

\* 'EX', 90000 of every batch write
TTL_SECONDS == 90000


\* '0 5 0 * * *' and '0 10 0 * * *': once a day
DAY_SECONDS == 86400

\* start(): the prewarm of domain d settles; started in the first hour of the
\* day, the scheduled run may (`due`) or may not be still to come today
PrewarmSettles(d, ok, due) ==
    /\ ran[d] = "boot"
    /\ age' = IF ok THEN [age EXCEPT ![d] = 0] ELSE age
    /\ ran' = [ran EXCEPT ![d] = IF hour = 0 /\ due THEN "due" ELSE "done"]
    /\ UNCHANGED <<hour, found>>
    /\ UNCHANGED <<loopVars, pace, deltaVars, gateVars, sseVars, counterVars, corrupt, trip, lateVars>>

\* the cron callback of domain d, at 00:05 / 00:10, succeeds
DailyRun(d) ==
    /\ hour = 0
    /\ ran[d] = "due"
    /\ age' = [age EXCEPT ![d] = 0]
    /\ ran' = [ran EXCEPT ![d] = "done"]
    /\ UNCHANGED <<hour, found>>
    /\ UNCHANGED <<loopVars, pace, deltaVars, gateVars, sseVars, counterVars, corrupt, trip, lateVars>>

\* an hour passes; the prewarms have settled and the runs due have run
HourPasses ==
    /\ \A d \in Domains : ran[d] = "done"
    /\ hour' = (hour + 1) % (DAY_SECONDS \div 3600)
    /\ age' = [d \in Domains |->
                 IF age[d] = Nil THEN Nil ELSE Min(age[d] + 1, TTL_SECONDS \div 3600)]
    /\ ran' = IF hour' = 0 THEN [d \in Domains |-> "due"] ELSE ran
    /\ UNCHANGED found
    /\ UNCHANGED <<loopVars, pace, deltaVars, gateVars, sseVars, counterVars, corrupt, trip, lateVars>>

\* a handler reads a key of domain d
KeyRead(d) ==
    /\ \A e \in Domains : ran[e] # "boot"
    /\ found' = IF age[d] = Nil THEN "absent"
                ELSE IF age[d] * 3600 >= TTL_SECONDS THEN "expired"
                ELSE "fresh"
    /\ UNCHANGED <<hour, age, ran>>
    /\ UNCHANGED <<loopVars, pace, deltaVars, gateVars, sseVars, counterVars, corrupt, trip, lateVars>>

InitDaily ==
    /\ LoopOff
    /\ DeltaOff
    /\ GateOff
    /\ SseOff
    /\ CounterOff
    /\ trip = NoTrip
    /\ keyspace = NoKeyspace
    /\ emitted = Nil
    /\ race = NoRace
    /\ useSequelize = FALSE
    /\ dummyGen = NoDummy
    /\ rank = NoRank
    /\ corrupt = {}
    /\ hour \in 0..((DAY_SECONDS \div 3600) - 1)
    /\ age = [d \in Domains |-> Nil]
    /\ ran = [d \in Domains |-> "boot"]
    /\ found = "none"

NextDaily ==
    \/ \E d \in Domains, ok \in BOOLEAN, due \in BOOLEAN : PrewarmSettles(d, ok, due)
    \/ \E d \in Domains : DailyRun(d)
    \/ HourPasses
    \/ \E d \in Domains : KeyRead(d)

SpecDaily == InitDaily /\ [][NextDaily]_vars

----------------------------------------------------------------------------
(* Publishing to SSE subscribers that come, read slowly and go *)

NextPublish ==
    \/ \E c \in ConnIds : Connect(c)
    \/ \E c \in ConnIds, readOk \in BOOLEAN : InitialLoadDone(c, readOk, TRUE, 0, TRUE)
    \/ \E c \in ConnIds : ConnectionCloses(c)
    \/ EmitTodayVisitor
    \/ \E c \in ConnIds : ClientReads(c)

SpecPublish == InitStream /\ [][NextPublish]_vars

----------------------------------------------------------------------------
(* Read Gateway: the handlers of the live metric while the live key comes *)
(* and goes                                                                *)

NextLive ==
    \/ Start
    \/ \E s \in RunSlots, failedQ \in SUBSET (1..6) : QueriesSettle(s, failedQ)
    \/ \E s \in RunSlots, ok \in BOOLEAN : WriteSettles(s, ok, 0)
    \/ Listen
    \/ LiveKeyExpires
    \/ \E readOk \in BOOLEAN, evalOk \in BOOLEAN, v \in TodayVals, setOk \in BOOLEAN :
            HandleToday(readOk, evalOk, v, setOk)
    \/ \E readOk \in BOOLEAN, liveReadOk \in BOOLEAN, evalOk \in BOOLEAN,
          v \in TodayVals, setOk \in BOOLEAN :
            HandleVisitorSummary(readOk, liveReadOk, evalOk, v, setOk)

SpecLive == InitGateway /\ [][NextLive]_vars

----------------------------------------------------------------------------
(* An envelope written with setJSON and read back with getJSON *)

NextTrip ==
    \/ \E value \in Envelopes, ok \in BOOLEAN : SetJSON(value, ok)
    \/ KeyExpires
    \/ \E ok \in BOOLEAN : GetJSON(ok)

SpecTrip == InitBatch /\ [][NextTrip]_vars

----------------------------------------------------------------------------
(* A poll cycle and batch runs writing the cache store side by side *)

InitKeys ==
    /\ LoopOff /\ DeltaOff /\ GateOff /\ SseOff /\ CounterOff
    /\ corrupt = {} /\ hour = 0
    /\ age = [d \in Domains |-> Nil] /\ ran = [d \in Domains |-> "boot"] /\ found = "none"
    /\ trip = NoTrip
    /\ keyspace \in {[NoKeyspace EXCEPT !.mode = m] : m \in Modes}
    /\ emitted = Nil
    /\ race = NoRace
    /\ useSequelize = FALSE
    /\ dummyGen = NoDummy
    /\ rank = NoRank

NextKeys ==
    \/ \E b \in Branches, ok \in BOOLEAN : PollCycleStep(b, ok)
    \/ \E d \in Domains, ok \in BOOLEAN : BatchRunStep(d, ok)

SpecKeys == InitKeys /\ [][NextKeys]_vars

----------------------------------------------------------------------------
(* The poll loop publishing to SSE subscribers whose handlers may evaluate *)
(* the live value themselves when the live key is missing                  *)

NextRelay ==
    \/ RegisterVisitorSyncJob
    \/ \E c \in Chains : LoopTimerFires(c, 0)
    \/ \E c \in Chains, ok \in BOOLEAN, v \in TodayVals : EvalDone(c, 0, ok, v)
    \/ \E c \in Chains, o \in {"ok", "setFail"} : WriteThenEmit(c, 0, o)
    \/ \E c \in ConnIds : Connect(c)
    \/ \E c \in ConnIds, evalOk \in BOOLEAN, v \in TodayVals :
            InitialLoadDone(c, TRUE, evalOk, v, TRUE)
    \/ LiveKeyExpires

SpecRelay == InitStream /\ [][NextRelay]_vars

----------------------------------------------------------------------------
(* The poll loop and a Read Gateway fallback racing for the live key *)

NextRace ==
    \/ \E c \in Callers : EvaluationBegins(c)
    \/ \E c \in Callers, ok \in BOOLEAN, v \in TodayVals : EvaluationSettles(c, ok, v)
    \/ \E c \in Callers, ok \in BOOLEAN : ResultStored(c, ok)
    \/ LiveKeyExpires

SpecRace == InitStream /\ [][NextRace]_vars

----------------------------------------------------------------------------
(* Delta-mode calls, one after the other, with rows inserted at any moment of *)
(* a call; with and without USE_SEQUELIZE                                     *)

InitSplit ==
    /\ LoopOff /\ GateOff /\ SseOff
    /\ mode = "delta"
    /\ rows = << >> /\ localDay = 0 /\ utcDay = 0 /\ tz = "same"
    /\ dstate = [k \in DeltaKeys |-> Nil]
    /\ ev = [c \in Callers |-> IdleEval]
    /\ inits = [d \in Days |-> 0]
    /\ istate = NoIncState /\ call = IdleCall /\ sinceChange = 0 /\ quiet = 0
    /\ corrupt = {} /\ hour = 0
    /\ age = [d \in Domains |-> Nil] /\ ran = [d \in Domains |-> "boot"] /\ found = "none"
    /\ trip = NoTrip /\ keyspace = NoKeyspace /\ emitted = Nil /\ race = NoRace
    /\ useSequelize \in BOOLEAN
    /\ dummyGen = NoDummy
    /\ rank = NoRank

NextSplit ==
    \/ \E which \in {"count", "max"}, ok \in BOOLEAN : SplitCallStep(which, ok)
    \/ \E day \in Days : RowInserted(day)

SpecSplit == InitSplit /\ [][NextSplit]_vars

----------------------------------------------------------------------------
(* Ranking endpoints, batch runs and the calendar *)

NextRank ==
    \/ \E newYear \in BOOLEAN : MonthTurns(newYear)
    \/ \E d \in Domains, ok \in BOOLEAN, n \in 0..MaxRanked : RankingRun(d, ok, n)
    \/ \E d \in Domains : RankingExpires(d)
    \/ \E k \in RankKeys : HandleRanking(k)

SpecRank == InitStream /\ [][NextRank]_vars

----------------------------------------------------------------------------
(* The dummy generator's endpoints called in any order while its timer fires *)
(* and days pass                                                            *)

NextDummy ==
    \/ StartDummyGeneration
    \/ StopDummyGeneration
    \/ DummyStatus
    \/ \E t \in 1..MaxTimers, day \in Days, ok \in BOOLEAN : DummyTimerFires(t, day, ok)
    \/ DateChanges

SpecDummy == InitStream /\ [][NextDummy]_vars

----------------------------------------------------------------------------
(* Claims *)

\* C1: at most one execution of the poll-loop body is in flight, and a cycle is
\* never in flight while another cycle of the loop is in flight or waits on its
\* reschedule timer; fastJobRunning is set exactly while a body is in flight.
C1_SingleFlight ==
    /\ Cardinality(InFlight) <= 1
    /\ Cardinality(InFlight \cup Pending) <= 1
    /\ fastJobRunning <=> (InFlight # {})

C1_Witness ==
    /\ registerCalls >= 2
    /\ \E c \in Chains : fl[c].pc = "eval" /\ fl[c].runs >= 1

\* C2: a batch run one of whose concurrent queries failed writes no cache key:
\* it has made no write, no stored entry is its own, and no step it takes
\* changes the value or the expiry of any stored entry.
C2_FailedQueryWritesNothing ==
    /\ [](\A s \in RunSlots :
            batch[s].queryFailed =>
                /\ batch[s].writes = 0
                /\ \A k \in AggregateKeys : store[k].gen # batch[s].id)
    /\ [][(\E s \in RunSlots : batch[s].queryFailed /\ batch'[s] # batch[s])
            => store' = store]_vars

C2_Witness ==
    \E s \in RunSlots :
        /\ batch[s].kind = "cron" /\ batch[s].pc = "done" /\ batch[s].queryFailed
        /\ \A k \in BatchKeys(batch[s].domain) : store[k].gen \notin {0, batch[s].id}

\* C3: the keys of one batch change as one atomic step: in no state do some keys
\* of a domain hold one run's data while others hold another run's.
C3_BatchWriteAtomic ==
    \A d \in Domains : \A k1, k2 \in BatchKeys(d) :
        (store[k1].gen # 0 /\ store[k2].gen # 0) => store[k1].gen = store[k2].gen

\* C4: an aggregate endpoint answers a cache miss with 202, status "warming" and
\* a retry_after_seconds field, having issued no aggregate query and written no
\* aggregate key.
C4_MissAnswersWarming ==
    (resp.ep \in AggregateKeys /\ resp.read = "miss") =>
        /\ resp.status = 202 /\ resp.warming /\ resp.retry > 0
        /\ resp.aggQueries = 0
        /\ resp.wrote \cap AggregateKeys = {}

\* C5: a handler whose cache read failed answers as on a miss (202 warming for
\* an aggregate, the direct fallback for the live metric) and never with 500.
C5_ReadFailureIsMiss ==
    (resp.read = "fail" \/ resp.liveRead = "fail") =>
        /\ resp.status # 500
        /\ resp.ep \in AggregateKeys => (resp.status = 202 /\ resp.warming)
        /\ resp.ep = "TODAY_COUNT" => (resp.status = 200 /\ resp.source = "db")

\* C6: a connection that is closed and whose handler has returned has neither
\* its 'today' listener registered nor its heartbeat timer active.
C6_NoSubscriberOutlivesConnection ==
    \A c \in ConnIds :
        (conn[c].socket = "closed" /\ conn[c].pc # "load") =>
            (c \notin listeners /\ c \notin heartbeats)

\* C7: every step that ends a cycle (successful or failed in the evaluation,
\* the cache write or the publish) leaves a timer of exactly bufferMs pending,
\* and once started the loop evaluates again and again.
C7_RescheduleAlways ==
    /\ [][\A c \in Chains :
            (fl[c].pc \in {"eval", "write"} /\ fl'[c].pc \notin {"eval", "write"})
                => (fl'[c].pc = "timer" /\ fl'[c].delay = cfg.bufferMs)]_vars
    /\ (fastLoopStarted ~> (\E c \in Chains : fl[c].pc = "eval"))

C7_Witness ==
    \E c \in Chains : fl[c].pc = "timer" /\ fl[c].after = "emitFail" /\ fl[c].delay = cfg.bufferMs

\* C8 as stated: whenever adaptive pacing applies the effective minimum
\* interval lies in [hard_floor, configured_min_interval].
C8_Original ==
    (pace.done /\ AdaptiveApplies(pace.runs))
        => (cfg.HARD_FLOOR_MS <= pace.out /\ pace.out <= cfg.minIntervalMs)

\* C8 amended: whenever adaptive pacing applies the effective minimum interval
\* lies in [hard_floor, max(hard_floor, configured_min_interval)].
C8_Amended ==
    (pace.done /\ AdaptiveApplies(pace.runs))
        => (cfg.HARD_FLOOR_MS <= pace.out
            /\ pace.out <= Max(cfg.HARD_FLOOR_MS, cfg.minIntervalMs))

C8_Witness ==
    /\ pace.done
    /\ AdaptiveApplies(pace.runs)
    /\ cfg.HARD_FLOOR_MS > cfg.minIntervalMs
    /\ pace.out = cfg.HARD_FLOOR_MS

StatePresent == \A k \in DeltaKeys : dstate[k] # Nil

\* C9: in delta mode, from one persisted state to the next within one period
\* (the same initialized_for stamp, every state key present), base_count and
\* base_max_id never decrease, whatever rows are inserted, whenever midnight
\* passes and whichever calls fail.
C9_BaseNeverDecreases ==
    [][(StatePresent /\ StatePresent' /\ dstate'["lastinit"] = dstate["lastinit"])
         => (/\ dstate'["basecount"] >= dstate["basecount"]
             /\ dstate'["basemaxid"] >= dstate["basemaxid"])]_vars

C9_Witness ==
    /\ StatePresent
    /\ \E c \in Callers :
        /\ ev[c].pc = "done" /\ ~ev[c].err /\ ~ev[c].needInit
        /\ ev[c].delta > 0
        /\ ev[c].ret > ev[c].delta
        /\ dstate["basecount"] = ev[c].ret

\* C10: a call that finds the stamp of another date, or any state key missing,
\* runs the baseline query, persists base_count/base_max_id with the stamp of
\* its date and returns the baseline; a call that finds the state present and
\* stamped for its date runs no baseline query; so no date gets more than one
\* baseline persisted while the keys stay in place.
C10_ReinitOncePerPeriod ==
    /\ \A c \in Callers :
        (ev[c].pc = "done" /\ ~ev[c].err) =>
            /\ (~ev[c].present \/ ev[c].lastInit # ev[c].todayStr) =>
                  /\ ev[c].needInit
                  /\ ev[c].ret = ev[c].baseCount
                  /\ dstate["basecount"] \in {Nil, ev[c].baseCount}
                  /\ dstate["basemaxid"] \in {Nil, ev[c].baseMaxId}
                  /\ dstate["lastinit"] \in {Nil, ev[c].todayStr}
            /\ (ev[c].present /\ ev[c].lastInit = ev[c].todayStr) => ~ev[c].needInit
    /\ \A d \in Days : inits[d] <= 1

C10_Witness ==
    \E c \in Callers :
        /\ ev[c].pc = "done" /\ ~ev[c].err
        /\ ev[c].present /\ ev[c].needInit
        /\ ev[c].todayStr >= 1
        /\ ev[c].ret >= 1
        /\ StatePresent /\ dstate["lastinit"] = utcDay
        /\ inits[utcDay] = 1

\* C11: over a dataset that has stopped changing, getTodayCount returns the
\* true count of today's rows in every strategy: in direct mode at every
\* call, in delta mode once one call has completed since the last change, in
\* incremental mode at every call begun more than one reconciliation interval
\* after the last change.
C11_ConvergesToTrueCount ==
    /\ (mode = "direct" /\ call.pc = "done" /\ ~call.err)
          => call.ret = QueryTodayFromDb
    /\ (mode = "incremental" /\ call.pc = "done" /\ ~call.err /\ call.late)
          => call.ret = QueryTodayFromDb
    /\ (mode = "delta" /\ ev["loop"].pc = "done" /\ ~ev["loop"].err /\ quiet >= 1)
          => ev["loop"].ret = QueryTodayFromDb

\* the same statement for the direct and the incremental strategy alone
C11_DirectAndIncrementalConverge ==
    (mode \in {"direct", "incremental"} /\ call.pc = "done" /\ ~call.err
        /\ (mode = "incremental" => call.late))
      => call.ret = QueryTodayFromDb

\* the same statement for the delta strategy where the server's date is the
\* UTC date
C11_DeltaConvergesInUtc ==
    (mode = "delta" /\ tz = "same" /\ ev["loop"].pc = "done" /\ ~ev["loop"].err
        /\ quiet >= 1)
      => ev["loop"].ret = QueryTodayFromDb

\* a delta-mode call, made after an earlier one completed over the same
\* dataset, returns something else than the count of today's rows
C11_Witness ==
    /\ mode = "delta"
    /\ ev["loop"].pc = "done" /\ ~ev["loop"].err /\ quiet >= 1
    /\ ev["loop"].ret # QueryTodayFromDb

\* C13: however many times registerVisitorSyncJob is called, the process has
\* exactly one poll loop from the first call on (and none before it): only the
\* first call starts one, and fastLoopStarted records that it did.
C13_LoopStartsOnce ==
    /\ fastLoopStarted <=> (registerCalls >= 1)
    /\ {c \in Chains : fl[c].pc # "none"} = {c \in Chains : c = 1 /\ registerCalls >= 1}

\* registerVisitorSyncJob was called again while the first call's loop was
\* already running cycles
C13_Witness ==
    /\ registerCalls = MaxRegister
    /\ fl[1].pc # "none" /\ fl[1].runs >= 1
    /\ fl[MaxRegister].pc = "none"

\* what a request for the live metric leaves behind, given the live key it
\* found and the value v an evaluation returns
LiveAnswer(r, v) ==
    /\ r.liveRead # "fail" => r.liveRead = (IF liveKey.present THEN "hit" ELSE "miss")
    /\ r.liveRead = "hit" =>
          /\ ~r.liveQuery /\ r.wrote = {}
          /\ r.total = liveKey.val
          /\ r.status # 500
          /\ liveKey' = liveKey
    /\ r.liveRead = "miss" =>
          /\ r.liveQuery
          /\ IF r.status = 500
             THEN liveKey' = liveKey /\ r.wrote = {}
             ELSE /\ r.total = v /\ r.wrote = {"TODAY_COUNT"}
                  /\ liveKey'.present /\ liveKey'.val = v
                  /\ liveKey'.ttl \in {FALLBACK_TTL_SECONDS, TODAY_TTL_SECONDS}

\* C14: a request for the live metric (GET /api/visitors/today, and the
\* fallback of GET /api/visitors/summary) that finds the live key returns the
\* cached value and evaluates nothing; one that misses evaluates the Live
\* Counter once, writes the result to the live key with a short TTL and
\* returns it (if the evaluation or the write fails the request fails and
\* nothing is written).  The steps meant are those of the two handlers: they
\* leave a response that read the live key, and either change the response or
\* leave the same one and set the live key.
C14_LiveHitOrEvaluateOnce ==
    [][(/\ resp'.liveRead # "none"
        /\ resp' # resp \/ (liveKey' # liveKey /\ liveKey'.present))
          => /\ \E v \in TodayVals : LiveAnswer(resp', v)
             /\ (resp'.ep = "TODAY_COUNT" /\ resp'.status = 200)
                  => resp'.source = (IF liveKey.present THEN "cache" ELSE "db")]_vars

\* a miss of GET /api/visitors/today was answered from an evaluation, which
\* is now the cached value
C14_Witness ==
    /\ resp.ep = "TODAY_COUNT" /\ resp.liveRead = "miss" /\ resp.status = 200
    /\ resp.source = "db" /\ resp.liveQuery /\ resp.total >= 1
    /\ liveKey.present /\ liveKey.val = resp.total /\ liveKey.ttl = TODAY_TTL_SECONDS

\* C12: no two evaluations of getTodayCount are in progress at the same time
\* in one process, whatever requests reach the Read Gateway while the poll
\* loop runs.
C12_EvaluationsNeverOverlap ==
    Cardinality({c \in Callers : Evaluating(c)}) <= 1

\* the loop and a request are both inside getTodayCount, and both take the
\* baseline
C12_Witness ==
    /\ Evaluating("loop") /\ Evaluating("gateway")
    /\ ev["loop"].needInit /\ ev["gateway"].needInit

\* C15: a cached string that does not decode is handled like a miss by every
\* handler: an aggregate endpoint answers 202 warming, a live endpoint
\* evaluates the Live Counter instead; the request never fails and nothing of
\* the undecodable string reaches the client.
C15_UndecodableIsMiss ==
    /\ resp.parse = "fail" =>
          \/ resp.status = 202 /\ resp.warming
          \/ resp.ep = "SUMMARY" /\ resp.status # 500
    /\ resp.parse = "nan" =>
          resp.liveQuery /\ resp.status # 500 /\ resp.total # NaN

\* the aggregate handlers do so
C15_AggregateUndecodableIsMiss ==
    resp.parse = "fail" => resp.status = 202 /\ resp.warming /\ resp.source = "none"

\* GET /api/visitors/today found a live key that is no number and answered
\* from it without evaluating
C15_Witness ==
    /\ resp.ep = "TODAY_COUNT" /\ resp.liveRead = "hit" /\ resp.parse = "nan"
    /\ resp.status = 200 /\ resp.source = "cache" /\ resp.total = NaN /\ ~resp.liveQuery

\* both batch runs of the start-up completed with every query and every write
\* successful, and nothing has expired since
FullySuccessfulRuns ==
    /\ phase = "serving"
    /\ clock = 0
    /\ \A sl \in RunSlots : /\ batch[sl].pc = "done"
                             /\ ~batch[sl].queryFailed /\ ~batch[sl].writeFailed

\* C17: the batch aggregators write every non-live key the Read Gateway reads:
\* after fully successful runs, and until expiry, every such key is in the
\* store and every non-live endpoint whose read succeeds is answered from the
\* cache.
C17_RunsFillEveryKey ==
    FullySuccessfulRuns =>
        /\ \A k \in AggregateKeys : Live(store[k])
        /\ (resp.ep \in UnwrittenKeys /\ resp.read # "fail")
              => resp.status = 200 /\ resp.source = "cache"

\* the keys the runs do write are there after fully successful runs
C17_WrittenKeysPresent ==
    FullySuccessfulRuns =>
        \A d \in Domains : \A k \in BatchKeys(d) : Live(store[k])

\* after fully successful runs the top-faculties endpoint of the month still
\* answers warming
C17_Witness ==
    /\ FullySuccessfulRuns
    /\ resp.ep = "TOP_MONTH_FACULTIES" /\ resp.read = "miss"
    /\ resp.status = 202 /\ resp.warming

\* C18: every non-live key present in the store holds a CacheEnvelope, an
\* object with generated_at, ttl_seconds and data; only the live key holds a
\* bare value.
C18_EveryKeyHoldsEnvelope ==
    \A k \in AggregateKeys : Live(store[k]) => EnvelopeFields \subseteq PayloadFields(k)

\* the visitor keys do
C18_VisitorKeysHoldEnvelope ==
    \A k \in BatchKeys("visitor") : Live(store[k]) => PayloadFields(k) = EnvelopeFields

\* a book run completed: its keys are present and hold no envelope
C18_Witness ==
    /\ \E sl \in RunSlots : /\ batch[sl].domain = "book" /\ batch[sl].pc = "done"
                             /\ batch[sl].writes = Len(WriteOrder("book"))
    /\ Live(store["BOOK_TOP_BORROWED"]) /\ PayloadFields("BOOK_TOP_BORROWED") = {}
    /\ Live(store["BOOK_SUMMARY"]) /\ "data" \notin PayloadFields("BOOK_SUMMARY")

\* C19: the generated_at of every envelope in the store is the time at which
\* the run's computation (its queries) completed, never the later time at
\* which the envelope was built or written.
C19_StampIsCompletionTime ==
    \A k \in AggregateKeys :
        (store[k].gen # 0 /\ "generated_at" \in PayloadFields(k)) => store[k].lag = 0

\* it is so for the first key a visitor run writes
C19_FirstKeyStampIsCompletionTime ==
    store["WEEK_DAILY"].gen # 0 => store["WEEK_DAILY"].lag = 0

\* a visitor run wrote its first key in more than no time, and the second
\* key's generated_at is that much later than the completion of the queries
C19_Witness ==
    /\ store["WEEK_DAILY"].gen # 0 /\ store["WEEK_DAILY"].lag = 0
    /\ store["MONTHLY_TOTALS"].gen = store["WEEK_DAILY"].gen
    /\ store["MONTHLY_TOTALS"].lag > 0

\* C20: every key a batch run writes gets a store expiry that is longer than
\* the period of the daily schedule and equal to the ttl_seconds recorded in
\* its envelope; with every scheduled daily run succeeding, a key that was
\* written once is never found expired by a read.
C20_TtlCoversPeriod ==
    /\ \A d \in Domains : \A k \in BatchKeys(d) :
          age[d] # Nil =>
              /\ TTL_SECONDS > DAY_SECONDS
              /\ "ttl_seconds" \in PayloadFields(k)
              /\ ENVELOPE_TTL_SECONDS = TTL_SECONDS
    /\ found # "expired"

\* the expiry is longer than the period, it is the ttl_seconds of the payloads
\* that record one, and no read finds a key expired
C20_NeverFoundExpired ==
    /\ TTL_SECONDS > DAY_SECONDS
    /\ ENVELOPE_TTL_SECONDS = TTL_SECONDS
    /\ found # "expired"
    /\ \A d \in Domains : age[d] # Nil => age[d] * 3600 <= DAY_SECONDS

\* the book keys were written a day ago, are read and found in place, and six
\* of them record no ttl_seconds
C20_Witness ==
    /\ age["book"] # Nil /\ age["book"] * 3600 = DAY_SECONDS
    /\ found = "fresh"
    /\ "ttl_seconds" \notin PayloadFields("BOOK_COLLECTION_STATS")

\* the publishes made since connection c registered its listener
PublishedSince(c) == [i \in 1..(published - conn[c].since) |-> conn[c].since + i]

\* C16: the 'update' events written to a subscriber are in publish order, and
\* a subscriber whose listener is registered and whose connection is open has
\* been written every value published since it registered, whatever the other
\* subscribers do: read slowly, disconnect, or be written to after their
\* connection is gone.
C16_OrderedAndIsolated ==
    \A c \in ConnIds :
        conn[c].pc = "stream" =>
            /\ \A i \in 1..Len(conn[c].updates) : conn[c].updates[i] = conn[c].since + i
            /\ Len(conn[c].updates) <= published - conn[c].since
            /\ conn[c].backlog => conn[c].updates # << >>
            /\ (c \in listeners /\ conn[c].socket = "open")
                  => conn[c].updates = PublishedSince(c)

\* two values were published to a subscriber registered after one whose
\* connection is gone but whose listener is still called; the subscriber is
\* slow and has not taken what it was sent
C16_Witness ==
    /\ published >= 2
    /\ conn[1].socket = "closed" /\ 1 \in listeners
    /\ conn[2].socket = "open" /\ 2 \in listeners
    /\ Len(conn[2].updates) >= 2 /\ conn[2].updates = PublishedSince(2)
    /\ conn[2].backlog

\* C21: the TTL of a live-count write of the poll loop is at least 2 seconds
\* and is computed from the interval the cycle used (the effective interval
\* where adaptive pacing applied, the configured one otherwise): twice its
\* whole seconds, for every configured interval, sub-second ones included.
C21_TtlFromIntervalUsed ==
    pace.done =>
        /\ pace.ttl >= TTL_FLOOR_SECONDS
        /\ pace.ttl = Max(2 * (pace.out \div MS_PER_SECOND), TTL_FLOOR_SECONDS)
        /\ ~AdaptiveApplies(pace.runs) => pace.out = cfg.minIntervalMs

\* adaptive pacing applied to a sub-second configured interval, and the TTL
\* is above the floor because the interval used is
C21_Witness ==
    /\ pace.done /\ AdaptiveApplies(pace.runs)
    /\ cfg.minIntervalMs < MS_PER_SECOND
    /\ pace.out # cfg.minIntervalMs
    /\ pace.ttl > TTL_FLOOR_SECONDS

Clamp(x, lo, hi) == Max(lo, Min(x, hi))

\* C30: as stated: with adaptive pacing enabled and run_count above the
\* minimum sample count the effective minimum interval is dynamic clamped into
\* [hard_floor, min(configured, max(dynamic, soft_floor))], otherwise it is
\* the configured minimum interval.
C30_DynamicClamped ==
    pace.done =>
        pace.out = IF AdaptiveApplies(pace.runs)
                   THEN Clamp(Dynamic(pace.avgRun), cfg.HARD_FLOOR_MS,
                              Min(cfg.minIntervalMs,
                                  Max(Dynamic(pace.avgRun), cfg.SOFT_FLOOR_MS)))
                   ELSE cfg.minIntervalMs

\* C30: amended: with adaptive pacing enabled and run_count above the minimum
\* sample count the effective minimum interval is the larger of hard_floor
\* and cap, where cap = min(configured, max(dynamic, soft_floor)) and dynamic
\* is the rounded product of the average duration (1 when it is 0) and the
\* target multiplier; otherwise it is the configured minimum interval.
C30_LargerOfHardFloorAndCap ==
    pace.done =>
        LET dyn == Dynamic(pace.avgRun)
            lifted == IF dyn >= cfg.SOFT_FLOOR_MS THEN dyn ELSE cfg.SOFT_FLOOR_MS
            cap == IF lifted <= cfg.minIntervalMs THEN lifted ELSE cfg.minIntervalMs
        IN  IF AdaptiveApplies(pace.runs)
            THEN /\ pace.out \in {cfg.HARD_FLOOR_MS, cap}
                 /\ pace.out >= cfg.HARD_FLOOR_MS
                 /\ pace.out >= cap
            ELSE pace.out = cfg.minIntervalMs

\* average 50 ms, multiplier 20, soft floor 400 ms, configured 1000 ms: 1000 ms
C30_Witness ==
    /\ pace.done /\ AdaptiveApplies(pace.runs)
    /\ pace.avgRun = 50 * AvgScale
    /\ cfg.TARGET_MULTIPLIER = 20 /\ cfg.SOFT_FLOOR_MS = 400
    /\ cfg.minIntervalMs = 1000 /\ cfg.HARD_FLOOR_MS < 1000
    /\ pace.out = 1000

\* C28: the time between two consecutive cycle starts of the fast loop equals
\* the last run's duration plus the buffer delay plus the minimum interval.
\* Stated for the cycle starts where the last run's duration is still known:
\* the timer set by the finally block of a run fires and `loop` starts the
\* next cycle; sinceLast is then the duration of that run and the time since
\* the previous start is sinceLast + delay + the timer's lateness.
C28_GapIsSumOfAll ==
    [][\A c \in Chains :
          (fl[c].pc = "timer" /\ fl[c].after \notin {"skip", "none"} /\ fl'[c].pc = "eval") =>
              \E late \in Lateness :
                  fl[c].sinceLast + fl[c].delay + late
                      = fl[c].sinceLast + cfg.bufferMs + fl'[c].effectiveMin]_vars

\* a run took so long that the buffer timer of its finally block starts the
\* next cycle with no further wait
C28_Witness ==
    \E c \in Chains :
        /\ fl[c].pc = "timer" /\ fl[c].after = "ok"
        /\ fl[c].sinceLast > 0
        /\ fl[c].sinceLast + fl[c].delay >= EffectiveMin(fl[c].avgRun, fl[c].runs)

\* C22: in delta mode a call that found the state present and stamped for its
\* date, and whose delta query reports n > 0 new rows with a max id m above
\* the stored base_max_id, returns base_count + n and persists base_count + n
\* and base_max_id = m, leaving the stamp alone; a call whose delta is zero or
\* whose max id does not exceed the stored one returns base_count and writes
\* no state.
C22_FoldsDeltaIntoBase ==
    [][\A c \in SeqCallers :
          (/\ ev[c].pc = "query" /\ ~ev[c].needInit /\ ev[c].present
           /\ ev'[c].pc # "query" /\ ~ev'[c].err) =>
              LET q == QueryTodayDeltaAfter(dstate["basemaxid"])
              IN  IF q.delta > 0 /\ q.newMax > dstate["basemaxid"]
                  THEN /\ ev'[c].pc = "persist"
                       /\ ev'[c].delta = q.delta
                       /\ ev'[c].baseCount = dstate["basecount"] + q.delta
                       /\ ev'[c].baseMaxId = q.newMax
                  ELSE /\ ev'[c].pc = "done"
                       /\ ev'[c].ret = dstate["basecount"]
                       /\ dstate' = dstate]_vars
    /\ [][\A c \in SeqCallers :
          (/\ ev[c].pc = "persist" /\ ~ev[c].needInit /\ ev[c].present
           /\ ev'[c].pc = "done" /\ ~ev'[c].err) =>
              /\ ev'[c].ret = dstate["basecount"] + ev[c].delta
              /\ dstate'["basecount"] = dstate["basecount"] + ev[c].delta
              /\ dstate'["basemaxid"] = ev[c].baseMaxId
              /\ dstate'["basemaxid"] > dstate["basemaxid"]
              /\ dstate'["lastinit"] = dstate["lastinit"]]_vars

\* baseline (1, 1) plus two new rows up to id 3 has given 3 and 3
C22_Witness ==
    \E c \in SeqCallers :
        /\ ev[c].pc = "done" /\ ~ev[c].err /\ ~ev[c].needInit /\ ev[c].present
        /\ ev[c].delta = 2
        /\ ev[c].ret = 3
        /\ dstate["basecount"] = 3 /\ dstate["basemaxid"] = 3

\* C23: in incremental mode getTodayCount reconciles exactly when
\* now - last_reconciled_at exceeds the reconciliation interval, and a call
\* that reconciled returns the count it has just queried (the increment
\* contributes 0), however incrementTodayCount calls interleave with it.
C23_ReconciledCallReturnsQueried ==
    [][mode = "incremental" =>
          /\ (call.pc = "idle" /\ call'.pc # "idle" /\ ~call'.err) =>
                ((call'.pc = "query") <=> (istate.sinceRecon > RECON_TICKS))
          /\ (call.pc = "read" /\ call.recon /\ call'.pc = "done" /\ ~call'.err) =>
                call'.ret = call.real]_vars

\* a reconciling call has returned more than it queried
C23_Witness ==
    /\ mode = "incremental"
    /\ call.pc = "done" /\ ~call.err /\ call.recon
    /\ call.ret > call.real
    /\ call.real = QueryTodayFromDb

\* C24: in incremental mode a discrepancy between base + delta and the true
\* count left by a skipped or duplicated incrementTodayCount call does not
\* outlast one reconciliation interval while getTodayCount keeps being
\* called: a reconciliation replaces base with the count it queried and
\* resets delta to 0, and a call begun more than one interval after the last
\* visit or increment, with none landing while it runs, returns the true
\* count.
C24_DriftGoneAfterInterval ==
    /\ [][(mode = "incremental" /\ call.pc = "persist" /\ call'.pc = "read") =>
             /\ istate'.base = call.real
             /\ istate'.inc = 0
             /\ istate'.sinceRecon = call.elapsed]_vars
    /\ []((/\ mode = "incremental"
            /\ call.pc = "done" /\ ~call.err /\ call.late /\ sinceChange > call.elapsed)
             => call.ret = QueryTodayFromDb)

\* visits were recorded and every increment owed has landed, once or
\* doubled; a call begun more than one interval later has reconciled and
\* returned the true count
C24_Witness ==
    /\ mode = "incremental"
    /\ call.pc = "done" /\ ~call.err /\ call.late /\ sinceChange > call.elapsed
    /\ call.recon
    /\ istate.pending = 0
    /\ call.ret = QueryTodayFromDb
    /\ call.ret >= 2
    /\ istate.base = call.ret /\ istate.inc = 0

\* C26: when a source query inside getTodayCount fails, the call ends there
\* with the error (no value, no further step of the call, no retry) and the
\* persisted Live Counter state (incremental base, delta and
\* last_reconciled_at; delta-mode base_count, base_max_id and
\* initialized_for) is what it was; a query answers or fails, nothing else.
C26_QueryFailurePropagates ==
    [][/\ (call.pc = "query" /\ call'.pc # "query") =>
             \/ /\ call'.err /\ call'.pc = "done" /\ call'.ret = Nil
                /\ istate' = istate /\ dstate' = dstate
             \/ /\ ~call'.err /\ call'.pc \in {"persist", "done"}
                /\ call'.real = QueryTodayFromDb
       /\ (ev["loop"].pc = "query" /\ ev'["loop"].pc # "query") =>
             \/ /\ ev'["loop"].err /\ ev'["loop"].pc = "done" /\ ev'["loop"].ret = Nil
                /\ istate' = istate /\ dstate' = dstate
             \/ /\ ~ev'["loop"].err /\ ev'["loop"].pc \in {"persist", "done"}
       /\ (call.pc = "done" /\ call.err) => call'.pc \in {"done", "idle"}
       /\ (ev["loop"].pc = "done" /\ ev["loop"].err) =>
             ev'["loop"].pc \in {"done", "idle"}]_vars

\* a reconciliation's query failed over a state reconciled earlier, which is
\* still in place
C26_Witness ==
    /\ mode = "incremental"
    /\ call.pc = "done" /\ call.err /\ call.recon /\ call.real = Nil
    /\ istate.base # Nil /\ istate.base # QueryTodayFromDb
    /\ istate.inc = 0

\* a delta query failed over a baseline persisted earlier, which is still in
\* place
C26_WitnessDelta ==
    /\ mode = "delta"
    /\ ev["loop"].pc = "done" /\ ev["loop"].err /\ ~ev["loop"].needInit
    /\ ev["loop"].baseCount = dstate["basecount"]
    /\ dstate["basecount"] # QueryTodayFromDb

\* C25: on every stream the first event sent is init; no update event is sent
\* before init, and once the handler has sent its first event every value
\* published by the poll loop produces exactly one update event on the stream
\* until the client disconnects.
C25_InitFirstThenUpdates ==
    \A c \in ConnIds :
        /\ conn[c].first \in {"none", "init"}
        /\ conn[c].updates # << >> => conn[c].first = "init"
        /\ (conn[c].pc = "stream" /\ conn[c].socket = "open")
              => conn[c].updates = PublishedSince(c)

\* the initial load failed, the stream began with `error` and has carried an
\* update since
C25_Witness ==
    \E c \in ConnIds :
        /\ conn[c].socket = "open" /\ conn[c].pc = "stream"
        /\ conn[c].first = "error"
        /\ conn[c].updates # << >>

\* C29: at process start both prewarms have settled, by success or by
\* failure, before the poll loop starts, before a cron job can fire and
\* before the server listens; a failed prewarm does not stop any of the
\* three from happening.
C29_PrewarmSettlesBeforeStart ==
    /\ phase # "serving" =>
            /\ ~fastLoopStarted /\ registerCalls = 0
            /\ \A c \in Chains : fl[c].pc = "none"
            /\ \A s \in RunSlots : batch[s].kind # "cron"
    /\ phase = "serving" =>
            /\ fastLoopStarted /\ fl[1].pc # "none"
            /\ \A s \in RunSlots : batch[s].kind = "prewarm" => batch[s].pc = "done"
    /\ phase = "boot" => \A s \in RunSlots : batch[s].kind = "prewarm"

\* one prewarm failed at its queries, the other at a write; the poll loop
\* runs, the server listens and a cron run has been started
C29_Witness ==
    /\ phase = "serving" /\ fastLoopStarted /\ fl[1].pc = "eval"
    /\ \A k \in AggregateKeys : store[k].gen \notin {1, 2} \/ k = WriteOrder("book")[1]
    /\ store[WriteOrder("book")[1]].gen = 2
    /\ \E s \in RunSlots : batch[s].kind = "cron"

\* C27: an envelope written with setJSON and read back with getJSON before it
\* expires, with no write to the key in between, comes back with identical
\* data, generated_at and ttl_seconds.
C27_RoundTripIdentical ==
    trip.pc = "hit" =>
        /\ trip.back.data = trip.written.data
        /\ trip.back.generated_at = trip.written.generated_at
        /\ trip.back.ttl_seconds = trip.written.ttl_seconds

\* what does come back: generated_at and ttl_seconds as written, the same
\* number of rows with the totals as written, a date string as written and a
\* Date as the ISO string of its day; the JSON text of what comes back is the
\* text that was stored
C27_JsonFormIdentical ==
    trip.pc = "hit" =>
        /\ trip.back.generated_at = trip.written.generated_at
        /\ trip.back.ttl_seconds = trip.written.ttl_seconds
        /\ Len(trip.back.data) = Len(trip.written.data)
        /\ \A i \in 1..Len(trip.written.data) :
              LET w == trip.written.data[i]
                  b == trip.back.data[i]
              IN  /\ b.total = w.total
                  /\ b.date.t = "string"
                  /\ w.date.t = "string" => b.date = w.date
                  /\ w.date.t = "Date" => b.date.v = 100 + w.date.v
        /\ trip.present => Stringify(trip.back) = trip.raw

\* the weekly series was written with the driver's Date in a row and read
\* back before it expired: the row's date is a string
C27_Witness ==
    /\ trip.pc = "hit"
    /\ Len(trip.written.data) = MaxItems
    /\ trip.written.data[1].date.t = "Date"
    /\ trip.back.data[1].date.t = "string"

\* C31: two consecutive cycle starts of the poll loop are separated by at
\* least the effective minimum interval computed when the later cycle is
\* admitted; a wake-up that comes earlier does not evaluate (the cycle state
\* and the live key stay as they are, lastStart is not advanced) and sets its
\* timer to exactly the remaining wait, effectiveMin - sinceLast.
C31_StartsSpacedByEffectiveMin ==
    [][\A c \in Chains :
          (fl[c].pc = "timer" /\ fl'[c] # fl[c]) =>
              \E late \in Lateness :
                  LET since == Sat(fl[c].sinceLast + fl[c].delay + late)
                      eff == EffectiveMin(fl[c].avgRun, fl[c].runs)
                  IN  /\ fl'[c].effectiveMin = eff
                      /\ fl'[c].pc \in {"eval", "timer"}
                      /\ fl'[c].pc = "eval" => since >= eff /\ fl'[c].sinceLast = 0
                      /\ fl'[c].pc = "timer" =>
                             /\ since < eff
                             /\ fl'[c].after = "skip"
                             /\ fl'[c].sinceLast = since
                             /\ fl'[c].delay = eff - since
                             /\ fl'[c].runs = fl[c].runs /\ fl'[c].avgRun = fl[c].avgRun
                             /\ liveKey' = liveKey]_vars

\* a wake-up came early and is waiting for the rest of the interval
C31_Witness ==
    \E c \in Chains :
        /\ fl[c].pc = "timer" /\ fl[c].after = "skip"
        /\ fl[c].runs > 0
        /\ fl[c].delay > 0
        /\ fl[c].sinceLast + fl[c].delay = fl[c].effectiveMin

\* C32: the key names a poll cycle sets (the live key and the state keys of the
\* Live Counter) and the key names a run of a batch aggregator sets are
\* disjoint: under any interleaving of poll cycles and batch runs no key of
\* the cache store is ever written by both.
C32_KeySetsDisjoint ==
    /\ PollKeys \cap BatchKeyNames = {}
    /\ \A k \in KeyNames : Cardinality(keyspace.writers[k]) <= 1
    /\ \A k \in PollKeys : keyspace.writers[k] \subseteq {"poll"}
    /\ \A k \in BatchKeyNames : keyspace.writers[k] \subseteq {"batch"}

\* a delta-mode cycle that has set its state keys is about to set the live key
\* of an earlier cycle again while a visitor run is in the middle of its writes
C32_Witness ==
    /\ keyspace.mode = "delta" /\ keyspace.poll = "write"
    /\ keyspace.writers[CACHE_KEYS.TODAY_COUNT] = {"poll"}
    /\ keyspace.writers["visitors:today:delta:lastinit"] = {"poll"}
    /\ keyspace.domain = "visitor" /\ keyspace.idx = 3
    /\ keyspace.writers[CACHE_KEYS.WEEK_DAILY] = {"batch"}
    /\ keyspace.writers[CACHE_KEYS.BOOK_SUMMARY] = {"batch"}

\* C33: every update delivered to subscribers carries the value the poll loop
\* computed in the cycle that publishes it, and that cycle had written the
\* value to the live cache key before publishing; nothing but a poll cycle
\* publishes: the fallback evaluation of a Read Gateway handler stores its
\* value and delivers no update.
C33_RelaysOnlyWrittenLoopValues ==
    [][/\ (published' # published \/ emitted' # emitted
            \/ \E c \in ConnIds : conn'[c].updates # conn[c].updates) =>
              \E l \in Chains :
                  /\ fl[l].pc = "write" /\ fl'[l].pc = "timer" /\ fl'[l].after = "ok"
                  /\ published' = published + 1
                  /\ emitted' = fl[l].today
                  /\ liveKey' = [present |-> TRUE, val |-> fl[l].today, ttl |-> fl[l].ttl]
                  /\ \A c \in ConnIds :
                        conn'[c].updates \in {conn[c].updates, Append(conn[c].updates, published')}
       /\ (\E c \in ConnIds : conn[c].pc = "load" /\ conn'[c].pc = "stream") =>
              /\ published' = published /\ emitted' = emitted
              /\ \A c \in ConnIds : conn'[c].updates = conn[c].updates]_vars

\* a subscriber whose handler evaluated the live value itself (the key was
\* missing) has since received an update of the poll loop with another value
C33_Witness ==
    \E c \in ConnIds :
        /\ conn[c].first = "init"
        /\ conn[c].socket = "open"
        /\ Len(conn[c].updates) = 2
        /\ published = 2
        /\ emitted = 1
        /\ liveKey.present /\ liveKey.val = 1

C35_LiveKeyNeverRegresses == ~race.regressed

\* the handler's evaluation began first, the loop's cycle began and finished
\* while it ran, and the handler then stored its older result over the loop's
C35_Witness ==
    /\ race.regressed
    /\ race.pc["gateway"] = "idle" /\ race.pc["loop"] = "idle"
    /\ liveKey.present /\ liveKey.val = 0 /\ liveKey.ttl = TODAY_TTL_SECONDS

\* C36: in delta mode, with a poll cycle and a Read Gateway fallback both
\* inside getTodayCount while rows are inserted, no write to the state lowers
\* base_count or base_max_id within a period (the date and the stamp stay the
\* same, every state key is present before and after).
C36_BaseMonotoneUnderOverlap ==
    [][(StatePresent /\ StatePresent'
          /\ dstate'["lastinit"] = dstate["lastinit"] /\ localDay' = localDay)
         => \A k \in {"basecount", "basemaxid"} : dstate[k] <= dstate'[k]]_vars

\* both callers are past their query, the one that queried later (and saw
\* more rows) has persisted, the other is about to write its smaller numbers
C36_Witness ==
    /\ StatePresent
    /\ \E c \in Callers :
          /\ ev[c].pc = "persist"
          /\ ev[c].baseCount < dstate["basecount"]
          /\ ev[c].baseMaxId < dstate["basemaxid"]
          /\ ev[c].todayStr = dstate["lastinit"]

\* C37: in delta mode the date of the re-initialization stamp changes at the
\* same instant as the day that bounds the baseline and delta queries, and a
\* call that begins after the counting period has changed does not build on a
\* base of the previous period: when it keeps the stored base, that base
\* counts no more rows than the current period has.
C37_StampRollsWithPeriod ==
    /\ [][(localDay' # localDay) <=> (utcDay' # utcDay)]_vars
    /\ [][\A c \in SeqCallers :
            (ev[c].pc \in {"idle", "done"} /\ ev'[c].pc = "query" /\ ~ev'[c].needInit)
               => ev'[c].baseCount <= Cardinality(TodayIds)]_vars

\* the same statement where the server's date is the UTC date
C37_HoldsInUtc ==
    [][tz = "same" =>
         /\ (localDay' # localDay) <=> (utcDay' # utcDay)
         /\ \A c \in SeqCallers :
               (ev[c].pc \in {"idle", "done"} /\ ev'[c].pc = "query" /\ ~ev'[c].needInit)
                  => ev'[c].baseCount <= Cardinality(TodayIds)]_vars

\* local midnight has passed, the UTC date has not: a call begun in the new
\* period found the stamp current and returned the previous period's count
C37_Witness ==
    \E c \in SeqCallers :
        /\ tz = "ahead" /\ localDay = utcDay + 1
        /\ ev[c].pc = "done" /\ ~ev[c].err /\ ~ev[c].needInit
        /\ ev[c].todayStr = utcDay /\ dstate["lastinit"] = utcDay
        /\ TodayIds = {}
        /\ ev[c].ret > 0

\* C38: in delta mode, however row inserts interleave with the baseline and
\* delta queries (the two-query baseline of the Sequelize path included), once
\* inserts have stopped the value returned by getTodayCount becomes and stays
\* the true count of the period: every successful call made after another
\* call has begun and succeeded since the last insert returns it.
C38_ConvergesAfterInsertsStop ==
    (ev["loop"].pc = "done" /\ ~ev["loop"].err /\ quiet # Nil /\ quiet >= 1)
        => ev["loop"].ret = Cardinality(TodayIds)

\* the same statement for the path that asks count and max in one query
C38_HoldsWithOneQuery ==
    (~useSequelize /\ ev["loop"].pc = "done" /\ ~ev["loop"].err /\ quiet # Nil /\ quiet >= 1)
        => ev["loop"].ret = Cardinality(TodayIds)

\* two calls have succeeded since the only row was inserted and the third
\* still returns 0: the baseline took its count before the insert and its max
\* after it
C38_Witness ==
    /\ useSequelize
    /\ ev["loop"].pc = "done" /\ ~ev["loop"].err /\ quiet = 2
    /\ Cardinality(TodayIds) = 1
    /\ ev["loop"].ret = 0
    /\ dstate["basecount"] = 0 /\ dstate["basemaxid"] = 1

\* C39: no ranking endpoint scoped to the month or the year answers 200 with
\* rows computed for an earlier month / year than the one of the moment of
\* the answer, which is the one it names; from a change of month until the
\* next successful batch run such an endpoint answers warming.
C39_RankingsAreOfTheCurrentPeriod ==
    rank.answer.status = 200
        => /\ rank.answer.rowsOf = rank.answer.current
           /\ rank.answer.label = rank.answer.rowsOf

\* the same statement for the four visitor endpoints, which compare periods
C39_HoldsForVisitorRankings ==
    (rank.answer.status = 200 /\ rank.answer.ep \in PeriodChecked)
        => /\ rank.answer.rowsOf = rank.answer.current
           /\ rank.answer.label = rank.answer.rowsOf

\* the month has changed, no book run has succeeded since, and the book
\* endpoint answers 200 naming the new month over the rows of the old one
C39_Witness ==
    /\ rank.answer.ep = "BOOK_TOP_BORROWED_MONTH"
    /\ rank.answer.status = 200
    /\ rank.answer.label = <<0, 1>>
    /\ rank.answer.rowsOf = <<0, 0>>
    /\ rank.now = [year |-> 0, month |-> 1]

\* C40: across any sequence of startDummyGeneration / stopDummyGeneration
\* calls at most one generation timer exists and isDummyGenerationRunning is
\* true exactly when a timer is active (the one dummyGenerationInterval
\* holds); a start while running and a stop while not running answer
\* success = false and change neither the flag nor the timers.
C40_OneTimerAndFlagAgree ==
    /\ [](/\ Cardinality(dummyGen.timers) <= 1
          /\ dummyGen.isDummyGenerationRunning <=> dummyGen.timers # {}
          /\ dummyGen.timers = IF dummyGen.dummyGenerationInterval = Nil THEN {}
                                ELSE {dummyGen.dummyGenerationInterval})
    /\ [][(/\ dummyGen' # dummyGen
           /\ \/ dummyGen'.reply.op = "start" /\ dummyGen.isDummyGenerationRunning
              \/ dummyGen'.reply.op = "stop" /\ ~dummyGen.isDummyGenerationRunning)
          => /\ ~dummyGen'.reply.success
             /\ dummyGen'.isDummyGenerationRunning = dummyGen.isDummyGenerationRunning
             /\ dummyGen'.dummyGenerationInterval = dummyGen.dummyGenerationInterval
             /\ dummyGen'.timers = dummyGen.timers
             /\ dummyGen'.made = dummyGen.made]_vars

\* the generator was started, stopped and started again, its timer has
\* inserted a row, and a further start has just been refused
C40_Witness ==
    /\ dummyGen.reply.op = "start" /\ ~dummyGen.reply.success
    /\ dummyGen.isDummyGenerationRunning
    /\ dummyGen.made = 2 /\ dummyGen.timers = {2}
    /\ Len(rows) >= 1

============================================================================
